---- MODULE Spec2Model ----
(***************************************************************************)
(* Market data feed (publisher / consumer pair).                           *)
(*                                                                         *)
(* The module models, from the C++ sources, the consumer's streaming       *)
(* MessageParser, the consumer's SymbolCache (single-writer seqlock) and   *)
(* the publisher's ClientManager together with the ExchangeSimulator       *)
(* handlers that drive it.  Each subsystem has its own specification; the  *)
(* variables of the other subsystems stay at their constructed values.     *)
(*                                                                         *)
(* Bytes are the integers 0..255, multi-byte fields are little-endian (the *)
(* code reads and writes them through packed structs on the host).         *)
(***************************************************************************)
EXTENDS Integers, Sequences, FiniteSets, TLC

VARIABLES
    parser,     \* MessageParser: its fields, plus the callbacks' logs
    wire,       \* bytes the peer has written that recv() has not returned yet
    sent,       \* frames the peer has put on the wire, in order: <<kind, seq>>
    next_seq,   \* the sequence number the peer gives its next frame
    crashed,    \* the consumer process has died of undefined behaviour
    last,       \* the last operation of the parser, its arguments and result
    entries_,   \* SymbolCache: sequence and state of each symbol
    writer,     \* the writer thread: where it is in its update
    readers,    \* the reader threads: where each is in get_snapshot
    committed,  \* the states the entries had after each complete update
    clients_,   \* ClientManager: the connection of each descriptor
    totals,     \* total_messages_sent_ and total_bytes_sent_
    open_fds,   \* the kernel: the connection behind each descriptor, 0 for none
    close_calls,\* the close calls made, as <<descriptor, connection closed>>
    destroyed,  \* the ClientManager has been destroyed
    accepted,   \* connections accepted so far
    send_calls, \* calls of send_to_client counted against MaxSends
    evt,        \* the last operation of the publisher and what it did
    sock,       \* the kernel: the receiving side of each client socket
    config_,    \* FeedHandler: its configuration
    sk,         \* MarketDataSocket: its fields
    fh,         \* FeedHandler: running_, and where its thread is in run()
    link,       \* the consumer's current connection and what went over it
    naps,       \* the reconnect attempts since connect(): delay slept, outcome
    sim,        \* ExchangeSimulator and its TickGenerator: counters and clock
    made,       \* the frames generated so far, and who was sent each wholly
    applied,    \* the cache updates applied whole since reset, in order
    out,        \* what the last query of a quiescent object returned
    tracker,    \* LatencyTracker: its atomics
    recorders,  \* the threads calling record: where each is in it
    samples,    \* the samples whose record call has begun
    pool,       \* MemoryPool: free_list_, each block's next, allocated_count_
    users,      \* the threads using the pool: where each is, the blocks it holds
    mds         \* MarketDataSocket statement by statement, and the kernel's sockets

parserVars == <<parser, wire, sent, next_seq, crashed, last>>
cacheVars == <<entries_, writer, readers, committed>>
cmVars == <<clients_, totals, open_fds, close_calls, destroyed, accepted, send_calls, evt>>
loopVars == <<sock>>
runVars == <<config_, sk, fh, link, naps>>
streamVars == <<sim, made>>
trackVars == <<tracker, recorders, samples>>
poolVars == <<pool, users>>
sockVars == <<mds>>
otherVars == <<out, trackVars, poolVars, sockVars>>
vars == <<parserVars, cacheVars, cmVars, loopVars, runVars, streamVars, applied, otherVars>>

\* what the operations of each subsystem leave alone
notParserVars == <<cacheVars, cmVars, loopVars, runVars, streamVars, applied, otherVars>>
notCacheVars == <<parserVars, cmVars, loopVars, runVars, streamVars, applied, otherVars>>
notCMVars == <<parserVars, cacheVars, loopVars, runVars, streamVars, applied, otherVars>>
notLoopVars == <<parserVars, cacheVars, runVars, streamVars, applied, otherVars>>
notRunVars == <<parserVars, cacheVars, cmVars, loopVars, streamVars, applied, otherVars>>
notStreamVars == <<cacheVars, loopVars, runVars, applied, otherVars>>
notCacheVars_applied == <<parserVars, cmVars, loopVars, runVars, streamVars, trackVars, poolVars,
                         sockVars>>
notTrackVars ==
    <<parserVars, cacheVars, cmVars, loopVars, runVars, streamVars, applied, poolVars,
      sockVars>>
notSockVars ==
    <<parserVars, cacheVars, cmVars, loopVars, runVars, streamVars, applied, out, trackVars,
      poolVars>>
notPoolVars ==
    <<parserVars, cacheVars, cmVars, loopVars, runVars, streamVars, applied, out, trackVars,
      sockVars>>

-----------------------------------------------------------------------------
(* protocol.h *)

TRADE == 1
QUOTE == 2
HEARTBEAT == 3

HEADER_SIZE == 16
TRADE_PAYLOAD_SIZE == 12
QUOTE_PAYLOAD_SIZE == 24
CHECKSUM_SIZE == 4

TRADE_MSG_SIZE == HEADER_SIZE + TRADE_PAYLOAD_SIZE + CHECKSUM_SIZE
QUOTE_MSG_SIZE == HEADER_SIZE + QUOTE_PAYLOAD_SIZE + CHECKSUM_SIZE
HEARTBEAT_MSG_SIZE == HEADER_SIZE + CHECKSUM_SIZE

Byte == 0..255

\* A uint32_t is its four bytes, least significant first: <<b0, b1, b2, b3>>
\* stands for b0 + 2^8 b1 + 2^16 b2 + 2^24 b3.
Zero32 == <<0, 0, 0, 0>>
Max32 == <<255, 255, 255, 255>>        \* 2^32 - 1

\* w + 1 in unsigned arithmetic of Len(w) bytes (the carry out is dropped)
RECURSIVE IncLE(_)
IncLE(w) ==
    IF w = <<>> THEN <<>>
    ELSE IF w[1] < 255 THEN <<w[1] + 1>> \o Tail(w)
    ELSE <<0>> \o IncLE(Tail(w))

Inc32(w) == IncLE(w)

\* n as k little-endian bytes
RECURSIVE LE(_, _)
LE(n, k) == IF k = 0 THEN <<>> ELSE <<n % 256>> \o LE(n \div 256, k - 1)

\* the k-byte little-endian unsigned integer at C offset off of bytes
RECURSIVE ReadLE(_, _, _)
ReadLE(bytes, off, k) ==
    IF k = 0 THEN 0 ELSE bytes[off + 1] + 256 * ReadLE(bytes, off + 1, k - 1)

\* a ^ b on n-bit unsigned integers
RECURSIVE Xor(_, _, _)
Xor(a, b, n) ==
    IF n = 0 THEN 0
    ELSE ((a + b) % 2) + 2 * Xor(a \div 2, b \div 2, n - 1)

\* a ^ b on bytes, tabulated
XorByte == [a \in Byte |-> [b \in Byte |-> Xor(a, b, 8)]]

\* v ^ w on uint32_t
Xor32(v, w) == [i \in 1..4 |-> XorByte[v[i]][w[i]]]

\* the first loop of calculate_checksum: whole 4-byte words from offset i
RECURSIVE ChecksumWords(_, _, _, _)
ChecksumWords(bytes, len, i, checksum) ==
    IF i + 4 <= len
    THEN ChecksumWords(bytes, len, i + 4, Xor32(checksum, SubSeq(bytes, i + 1, i + 4)))
    ELSE [i |-> i, checksum |-> checksum]

\* the second loop of calculate_checksum: a remaining byte i is shifted
\* left by (i % 4) * 8, that is, folded into byte i % 4 of the checksum
RECURSIVE ChecksumTail(_, _, _, _)
ChecksumTail(bytes, len, i, checksum) ==
    IF i < len
    THEN ChecksumTail(bytes, len, i + 1,
                      [checksum EXCEPT ![(i % 4) + 1] = XorByte[@][bytes[i + 1]]])
    ELSE checksum

calculate_checksum(bytes, len) ==
    LET w == ChecksumWords(bytes, len, 0, Zero32)
    IN  ChecksumTail(bytes, len, w.i, w.checksum)

get_message_size(type) ==
    CASE type = TRADE     -> TRADE_MSG_SIZE
      [] type = QUOTE     -> QUOTE_MSG_SIZE
      [] type = HEARTBEAT -> HEARTBEAT_MSG_SIZE
      [] OTHER            -> 0

\* MessageHeader, packed: message_type(2) sequence_number(4) timestamp_ns(8)
\* symbol_id(2)
HeaderBytes(type, seq, ts, sym) == LE(type, 2) \o seq \o LE(ts, 8) \o LE(sym, 2)

-----------------------------------------------------------------------------
(* tick_generator.cpp: serialisation of a frame.  The parser never looks   *)
(* inside a payload, so the payload is a fixed byte pattern of the kind's  *)
(* length.                                                                 *)

PayloadBytes(type) ==
    LET n == CASE type = TRADE -> TRADE_PAYLOAD_SIZE
               [] type = QUOTE -> QUOTE_PAYLOAD_SIZE
               [] OTHER        -> 0
    IN  [i \in 1..n |-> (37 * i + type) % 256]

\* header, payload, then the checksum of header and payload
EncodeFrame(type, seq, ts, sym) ==
    LET body == HeaderBytes(type, seq, ts, sym) \o PayloadBytes(type)
    IN  body \o calculate_checksum(body, Len(body))

-----------------------------------------------------------------------------
(* parser.h / parser.cpp: MessageParser                                    *)

\* One model MiB.  The buffer sizes keep the source's proportions (4 MiB
\* initial, 16 MiB maximum, 4 MiB receive buffer) on a scale at which growth,
\* compaction and the maximum are reached by streams of a few frames.
MiB == 16

INITIAL_BUFFER_SIZE == 4 * MiB
MAX_BUFFER_SIZE == 16 * MiB
RECV_BUFFER_SIZE == 4 * MiB

Min(a, b) == IF a < b THEN a ELSE b

\* MessageParser::MessageParser and the member initialisers.  buffer_ holds
\* the bytes written so far (offsets 0 .. write_pos_-1); capacity is
\* buffer_.size().  delivered and gaps log the calls of the kind callbacks
\* and of the gap callback since construction or the last reset.
NewParser ==
    [ buffer_ |-> <<>>, capacity |-> INITIAL_BUFFER_SIZE,
      read_pos_ |-> 0, write_pos_ |-> 0,
      expected_sequence_ |-> Zero32, first_message_ |-> TRUE,
      messages_parsed_ |-> 0, trades_parsed_ |-> 0, quotes_parsed_ |-> 0,
      checksum_errors_ |-> 0, sequence_gaps_ |-> 0, malformed_messages_ |-> 0,
      delivered |-> <<>>, gaps |-> <<>> ]

compact_buffer(p) ==
    IF p.read_pos_ = 0 THEN p
    ELSE LET used == p.write_pos_ - p.read_pos_
         IN  [p EXCEPT !.buffer_ = SubSeq(p.buffer_, p.read_pos_ + 1, p.write_pos_),
                       !.write_pos_ = used,
                       !.read_pos_ = 0]

\* The copy at the end of append_data.  oob is the number of bytes memcpy
\* writes past the end of buffer_ (0 when the data fits).
CopyIn(p, data, ret) ==
    [ p   |-> [p EXCEPT !.buffer_ = p.buffer_ \o data,
                        !.write_pos_ = p.write_pos_ + Len(data)],
      ret |-> ret,
      oob |-> IF p.write_pos_ + Len(data) > p.capacity
              THEN p.write_pos_ + Len(data) - p.capacity ELSE 0 ]

\* append_data that, at the maximum size, makes room by dropping the unread
\* bytes instead of the new ones
append_data_drops_oldest(p, data) ==
    LET len == Len(data) IN
    IF len = 0 THEN [ p |-> p, ret |-> 0, oob |-> 0 ]
    ELSE IF p.capacity - p.write_pos_ < len
    THEN LET c == compact_buffer(p) IN
         IF c.capacity - c.write_pos_ < len
         THEN LET new_size == Min(c.capacity * 2, MAX_BUFFER_SIZE) IN
              IF new_size <= c.capacity
              THEN [ p |-> [c EXCEPT !.malformed_messages_ = @ + 1,
                                     !.buffer_ = <<>>, !.write_pos_ = 0],
                     ret |-> 0, oob |-> 0 ]
              ELSE CopyIn([c EXCEPT !.capacity = new_size], data, len)
         ELSE CopyIn(c, data, len)
    ELSE CopyIn(p, data, len)

append_data(p, data) ==
    LET len == Len(data) IN
    IF len = 0 THEN [ p |-> p, ret |-> 0, oob |-> 0 ]
    ELSE IF p.capacity - p.write_pos_ < len
    THEN LET c == compact_buffer(p) IN
         IF c.capacity - c.write_pos_ < len
         THEN LET new_size == Min(c.capacity * 2, MAX_BUFFER_SIZE) IN
              IF new_size <= c.capacity
              THEN [ p |-> [c EXCEPT !.malformed_messages_ = @ + 1],
                     ret |-> 0, oob |-> 0 ]
              ELSE CopyIn([c EXCEPT !.capacity = new_size], data, len)
         ELSE CopyIn(c, data, len)
    ELSE CopyIn(p, data, len)

\* write_pos_ - read_pos_: the bytes not yet parsed
Unread(p) == p.write_pos_ - p.read_pos_

\* the bytes of the message at the read cursor
MsgBytes(p, msg_size) == SubSeq(p.buffer_, p.read_pos_ + 1, p.read_pos_ + msg_size)

validate_checksum(bytes, msg_len) ==
    IF msg_len < CHECKSUM_SIZE THEN FALSE
    ELSE LET data_len == msg_len - CHECKSUM_SIZE
             expected == calculate_checksum(bytes, data_len)
             received == SubSeq(bytes, data_len + 1, data_len + 4)
         IN  expected = received

\* w + 1 that stops at 2^32 - 1 instead of wrapping to 0
Saturating32(w) == IF w = Max32 THEN Max32 ELSE Inc32(w)

\* check_sequence keeping expected_sequence_ in a type that does not wrap
check_sequence_saturating(p, received_seq) ==
    IF p.first_message_
    THEN [ p  |-> [p EXCEPT !.first_message_ = FALSE,
                            !.expected_sequence_ = Saturating32(received_seq)],
           ok |-> TRUE ]
    ELSE IF received_seq # p.expected_sequence_
    THEN [ p  |-> [p EXCEPT !.gaps = Append(@, <<p.expected_sequence_, received_seq>>),
                            !.sequence_gaps_ = @ + 1,
                            !.expected_sequence_ = Saturating32(received_seq)],
           ok |-> FALSE ]
    ELSE [ p  |-> [p EXCEPT !.expected_sequence_ = Saturating32(received_seq)],
           ok |-> TRUE ]

\* check_sequence that counts the frames missing, not the gap
check_sequence_counts_missing(p, received_seq) ==
    IF p.first_message_
    THEN [ p  |-> [p EXCEPT !.first_message_ = FALSE,
                            !.expected_sequence_ = Inc32(received_seq)],
           ok |-> TRUE ]
    ELSE IF received_seq # p.expected_sequence_
    THEN [ p  |-> [p EXCEPT !.gaps = Append(@, <<p.expected_sequence_, received_seq>>),
                            !.sequence_gaps_ = @ + 1 +
                                (IF received_seq[1] > p.expected_sequence_[1] + 1
                                 THEN 1 ELSE 0),
                            !.expected_sequence_ = Inc32(received_seq)],
           ok |-> FALSE ]
    ELSE [ p  |-> [p EXCEPT !.expected_sequence_ = Inc32(received_seq)],
           ok |-> TRUE ]

\* check_sequence: ok is its return value
check_sequence(p, received_seq) ==
    IF p.first_message_
    THEN [ p  |-> [p EXCEPT !.first_message_ = FALSE,
                            !.expected_sequence_ = Inc32(received_seq)],
           ok |-> TRUE ]
    ELSE IF received_seq # p.expected_sequence_
    THEN [ p  |-> [p EXCEPT !.gaps = Append(@, <<p.expected_sequence_, received_seq>>),
                            !.sequence_gaps_ = @ + 1,
                            !.expected_sequence_ = Inc32(received_seq)],
           ok |-> FALSE ]
    ELSE [ p  |-> [p EXCEPT !.expected_sequence_ = Inc32(received_seq)],
           ok |-> TRUE ]

\* the switch of parse_one: the kind's callback and its counter
Dispatch(p, type, seq) ==
    CASE type = TRADE     -> [p EXCEPT !.delivered = Append(@, <<type, seq>>),
                                       !.trades_parsed_ = @ + 1]
      [] type = QUOTE     -> [p EXCEPT !.delivered = Append(@, <<type, seq>>),
                                       !.quotes_parsed_ = @ + 1]
      [] type = HEARTBEAT -> [p EXCEPT !.delivered = Append(@, <<type, seq>>)]
      [] OTHER            -> p

\* a skip that counts the error and leaves the read cursor where it is
SkipByte_stuck(p, counter) ==
    [p EXCEPT ![counter] = @ + 1]

\* the step of parse_one that skips one byte
SkipByte(p, counter) ==
    [p EXCEPT !.read_pos_ = @ + 1, ![counter] = @ + 1]

\* the end of parse_one with a frame that is dropped when check_sequence
\* reports a gap
Accept_drops_on_gap(p, type, msg_size) ==
    LET seq == SubSeq(p.buffer_, p.read_pos_ + 3, p.read_pos_ + 6)
        cs  == check_sequence(p, seq)
        d   == IF cs.ok THEN Dispatch(cs.p, type, seq) ELSE cs.p
    IN  [ p |-> [d EXCEPT !.messages_parsed_ = @ + 1,
                          !.read_pos_ = @ + msg_size],
          result |-> IF cs.ok THEN "SUCCESS" ELSE "SEQUENCE_GAP" ]

\* the end of parse_one, for a whole frame with a valid checksum at the read
\* cursor: check_sequence, the kind's callback, the counters, the cursor
Accept(p, type, msg_size) ==
    LET seq == SubSeq(p.buffer_, p.read_pos_ + 3, p.read_pos_ + 6)
        cs  == check_sequence(p, seq)
        d   == Dispatch(cs.p, type, seq)
    IN  [ p |-> [d EXCEPT !.messages_parsed_ = @ + 1,
                          !.read_pos_ = @ + msg_size],
          result |-> IF cs.ok THEN "SUCCESS" ELSE "SEQUENCE_GAP" ]

parse_one(p) ==
    LET available == Unread(p) IN
    IF available < HEADER_SIZE THEN [ p |-> p, result |-> "NEED_MORE_DATA" ]
    ELSE
    LET type == ReadLE(p.buffer_, p.read_pos_, 2)
        msg_size == get_message_size(type)
    IN
    IF msg_size = 0
    THEN [ p |-> SkipByte(p, "malformed_messages_"), result |-> "INVALID_MESSAGE" ]
    ELSE IF available < msg_size THEN [ p |-> p, result |-> "NEED_MORE_DATA" ]
    ELSE IF msg_size > QUOTE_MSG_SIZE
    THEN [ p |-> SkipByte(p, "malformed_messages_"), result |-> "INVALID_MESSAGE" ]
    ELSE IF ~ validate_checksum(MsgBytes(p, msg_size), msg_size)
    THEN [ p |-> SkipByte(p, "checksum_errors_"), result |-> "CHECKSUM_ERROR" ]
    ELSE Accept(p, type, msg_size)

\* One pass of the loop of parse_messages: a call of parse_one, counted in
\* calls, which ends the loop (done) when it returns NEED_MORE_DATA and
\* counts the message when it returns SUCCESS or SEQUENCE_GAP.
LoopPass(st) ==
    IF st.done THEN st
    ELSE LET r == parse_one(st.p) IN
         [ p |-> r.p,
           count |-> IF r.result \in {"SUCCESS", "SEQUENCE_GAP"}
                     THEN st.count + 1 ELSE st.count,
           calls |-> st.calls + 1,
           done |-> r.result = "NEED_MORE_DATA" ]

\* n passes of the loop, one after the other
RECURSIVE LoopPasses(_, _)
LoopPasses(st, n) ==
    IF n = 0 THEN st
    ELSE IF n = 1 THEN LoopPass(st)
    ELSE LET half == LoopPasses(st, n \div 2)
         IN  IF half.done THEN half ELSE LoopPasses(half, n - (n \div 2))

\* parse_messages: the loop, followed for at most two passes more than there
\* are unread bytes; done = FALSE says that it was still running then.
parse_messages(p) ==
    LoopPasses([p |-> p, count |-> 0, calls |-> 0, done |-> FALSE], Unread(p) + 2)

\* MessageParser::reset: the cursors, the sequence state and the counters.
\* The logs of the callbacks start afresh with it.
reset(p) ==
    [p EXCEPT !.buffer_ = <<>>, !.read_pos_ = 0, !.write_pos_ = 0,
              !.delivered = <<>>, !.gaps = <<>>,
              !.expected_sequence_ = Zero32, !.first_message_ = TRUE,
              !.messages_parsed_ = 0, !.trades_parsed_ = 0, !.quotes_parsed_ = 0,
              !.checksum_errors_ = 0, !.sequence_gaps_ = 0,
              !.malformed_messages_ = 0]

-----------------------------------------------------------------------------
(* cache.h / cache.cpp: SymbolCache, a seqlock per symbol.  One writer      *)
(* thread (the feed handler), reader threads (the visualisation).  A step   *)
(* is one access to entries_: a load or store of sequence, or the load or   *)
(* store of one field of state.  The fences keep the accesses to state      *)
(* between the two accesses to sequence of the same call; among themselves  *)
(* the stores of an update take their program order and the loads of a      *)
(* copy run through the struct forwards or backwards.                       *)

MaxUpdates == 2         \* updates the writer makes

\* symbols the cache was constructed for (num_symbols_ = 1), and the ids
\* callers pass: 1 is out of range
CachedSymbols == {0}
SymbolIds == {0, 1}
Readers == {"r1"}

\* struct MarketState, in declaration order
StateFields ==
    << "best_bid", "best_ask", "bid_quantity", "ask_quantity",
       "last_traded_price", "last_traded_quantity", "last_update_time",
       "update_count", "opening_price" >>

FieldNames == {StateFields[i] : i \in 1..Len(StateFields)}

\* MarketState{}
ZeroState == [f \in FieldNames |-> 0]

\* SymbolEntry after SymbolCache::reset
NewEntry == [sequence |-> 0, state |-> ZeroState]

\* (bid + ask) / 2.0; prices are even numbers of half ticks, so the
\* division is exact as it is on the doubles
Midpoint(bid, ask) == (bid + ask) \div 2

\* begin_write that does not mark the write as in progress
begin_write_unmarked(e) == e

\* begin_write / end_write on the entry
begin_write(e) == [e EXCEPT !.sequence = @ + 1]

\* end_write that leaves the counter as begin_write set it
end_write_unmarked(e) == e

end_write(e) == [e EXCEPT !.sequence = @ + 1]

\* the stores of each update between begin_write and end_write, in program
\* order, as <<field, value>>, given the state the writer finds
QuoteStores(s, bid_price, bid_qty, ask_price, ask_qty, timestamp) ==
    << <<"best_bid", bid_price>>, <<"bid_quantity", bid_qty>>,
       <<"best_ask", ask_price>>, <<"ask_quantity", ask_qty>>,
       <<"last_update_time", timestamp>>,
       <<"update_count", s.update_count + 1>> >>
    \o IF s.opening_price = 0
       THEN << <<"opening_price", Midpoint(bid_price, ask_price)>> >>
       ELSE <<>>

TradeStores(s, price, quantity, timestamp) ==
    << <<"last_traded_price", price>>, <<"last_traded_quantity", quantity>>,
       <<"last_update_time", timestamp>>,
       <<"update_count", s.update_count + 1>> >>
    \o IF s.opening_price = 0 THEN << <<"opening_price", price>> >> ELSE <<>>

\* update_bid without update_count++
BidStores_uncounted(s, price, quantity, timestamp) ==
    << <<"best_bid", price>>, <<"bid_quantity", quantity>>,
       <<"last_update_time", timestamp>> >>

BidStores(s, price, quantity, timestamp) ==
    << <<"best_bid", price>>, <<"bid_quantity", quantity>>,
       <<"last_update_time", timestamp>>,
       <<"update_count", s.update_count + 1>> >>

AskStores(s, price, quantity, timestamp) ==
    << <<"best_ask", price>>, <<"ask_quantity", quantity>>,
       <<"last_update_time", timestamp>>,
       <<"update_count", s.update_count + 1>> >>

UpdateKinds == {"update_quote", "update_trade", "update_bid", "update_ask"}

\* The n-th update carries timestamp n, quantity n and prices 2n (bid, trade)
\* and 2n + 2 (ask): no two updates write the same value to a field.
StoresOf(kind, s) ==
    LET n == s.update_count + 1 IN
    CASE kind = "update_quote" -> QuoteStores(s, 2 * n, n, 2 * n + 2, n, n)
      [] kind = "update_trade" -> TradeStores(s, 2 * n, n, n)
      [] kind = "update_bid"   -> BidStores(s, 2 * n, n, n)
      [] kind = "update_ask"   -> AskStores(s, 2 * n + 2, n, n)

WriterIdle == [pc |-> "idle", symbol_id |-> 0, todo |-> <<>>]

ReaderIdle ==
    [pc |-> "idle", symbol_id |-> 0, seq1 |-> 0, snapshot |-> ZeroState,
     order |-> <<>>, retried |-> FALSE, returned |-> FALSE, result |-> ZeroState]

\* the cache as its constructor leaves it, the threads not yet started
CacheConstructed ==
    /\ entries_ = [s \in CachedSymbols |-> NewEntry]
    /\ writer = WriterIdle
    /\ readers = [r \in Readers |-> ReaderIdle]
    /\ committed = {ZeroState}

\* update_*: the range check and begin_write
UpdateBegin(kind, symbol_id) ==
    /\ writer.pc = "idle"
    /\ \A s \in CachedSymbols : entries_[s].state.update_count < MaxUpdates
    /\ IF symbol_id \notin CachedSymbols
       THEN UNCHANGED <<entries_, writer>>
       ELSE /\ entries_' = [entries_ EXCEPT ![symbol_id] = begin_write(@)]
            /\ writer' = [pc |-> "writing", symbol_id |-> symbol_id,
                          todo |-> StoresOf(kind, entries_[symbol_id].state)]
    /\ UNCHANGED <<readers, committed, notCacheVars>>

\* update_*: the next store to state
UpdateStore ==
    /\ writer.pc = "writing"
    /\ writer.todo # <<>>
    /\ LET st == Head(writer.todo) IN
       entries_' = [entries_ EXCEPT ![writer.symbol_id].state[st[1]] = st[2]]
    /\ writer' = [writer EXCEPT !.todo = Tail(@)]
    /\ UNCHANGED <<readers, committed, notCacheVars>>

\* update_*: end_write; the update is complete
UpdateEnd ==
    /\ writer.pc = "writing"
    /\ writer.todo = <<>>
    /\ entries_' = [entries_ EXCEPT ![writer.symbol_id] = end_write(@)]
    /\ committed' = committed \cup {entries_[writer.symbol_id].state}
    /\ writer' = WriterIdle
    /\ UNCHANGED <<readers, notCacheVars>>

Reverse(s) == [i \in 1..Len(s) |-> s[Len(s) + 1 - i]]

\* get_snapshot: the range check
GetSnapshot(r, symbol_id) ==
    /\ readers[r].pc = "idle"
    /\ readers' = [readers EXCEPT ![r] =
          IF symbol_id \notin CachedSymbols
          THEN [@ EXCEPT !.returned = TRUE, !.result = ZeroState,
                         !.retried = FALSE, !.symbol_id = symbol_id]
          ELSE [@ EXCEPT !.pc = "seq1", !.symbol_id = symbol_id,
                         !.retried = FALSE, !.returned = FALSE,
                         !.result = ZeroState, !.snapshot = ZeroState]]
    /\ UNCHANGED <<entries_, writer, committed, notCacheVars>>

\* get_snapshot: seq1 = sequence.load(); an odd value is loaded again
LoadSeq1(r) ==
    /\ readers[r].pc = "seq1"
    /\ LET seq == entries_[readers[r].symbol_id].sequence IN
       /\ seq % 2 = 0
       /\ \E order \in {StateFields, Reverse(StateFields)} :
             readers' = [readers EXCEPT ![r].seq1 = seq, ![r].pc = "copy",
                                        ![r].order = order]
    /\ UNCHANGED <<entries_, writer, committed, notCacheVars>>

\* get_snapshot: snapshot = entry.state, one field
CopyField(r) ==
    /\ readers[r].pc = "copy"
    /\ readers[r].order # <<>>
    /\ LET f == Head(readers[r].order) IN
       readers' = [readers EXCEPT
                     ![r].snapshot[f] = entries_[readers[r].symbol_id].state[f],
                     ![r].order = Tail(@)]
    /\ UNCHANGED <<entries_, writer, committed, notCacheVars>>

\* get_snapshot: seq2 = sequence.load(); return, or go round the loop again
LoadSeq2(r) ==
    /\ readers[r].pc = "copy"
    /\ readers[r].order = <<>>
    /\ LET seq2 == entries_[readers[r].symbol_id].sequence IN
       readers' = [readers EXCEPT ![r] =
          IF readers[r].seq1 # seq2
          THEN [@ EXCEPT !.pc = "seq1", !.retried = TRUE]
          ELSE [@ EXCEPT !.pc = "idle", !.returned = TRUE,
                         !.result = readers[r].snapshot]]
    /\ UNCHANGED <<entries_, writer, committed, notCacheVars>>

-----------------------------------------------------------------------------
(* client_manager.h / client_manager.cpp: ClientManager, and the handlers   *)
(* of ExchangeSimulator that drive it (exchange_simulator.cpp).             *)

MaxConns == 2           \* connections accepted
MaxSends == 2           \* calls of send_to_client

SLOW_CONSUMER_THRESHOLD == 1048576

\* descriptors the kernel hands out for client sockets; the symbols of the
\* ticks and of the subscriptions
FDs == {5, 6}
Symbols == {0, 1}

\* the sizes of the messages generate_tick makes
TickSizes == {QUOTE_MSG_SIZE}

\* what the kernel answers to one send_to_client: the queue depth TIOCOUTQ
\* reports (0 also when the ioctl fails), and what send() returns
Pendings ==
    {0, SLOW_CONSUMER_THRESHOLD \div 2, SLOW_CONSUMER_THRESHOLD,
     SLOW_CONSUMER_THRESHOLD + 1}
Outcomes == {"full", "partial", "eagain", "error"}
Answers ==
    {a \in [pending : Pendings, outcome : Outcomes] :
        a.pending > SLOW_CONSUMER_THRESHOLD => a.outcome = "eagain"}
NoAnswer == [pending |-> 0, outcome |-> "none"]

\* ClientConnection as add_client makes it; port identifies the peer
NewConnection(fd, port) ==
    [ fd |-> fd, port |-> port,
      subscribed_symbols |-> {}, subscribe_all |-> TRUE,
      pending_bytes |-> 0, slow_consumer_count |-> 0, is_slow |-> FALSE,
      messages_sent |-> 0, bytes_sent |-> 0 ]

add_client(cs, fd, port) ==
    IF fd \in DOMAIN cs THEN cs
    ELSE [f \in DOMAIN cs \cup {fd} |-> IF f = fd THEN NewConnection(fd, port) ELSE cs[f]]

\* ::close(fd): k is the kernel's table (open_fds: the connection behind each
\* descriptor, 0 for none) and the log of the close calls, as <<fd, connection>>
Close(k, fd) ==
    [ open_fds |-> [k.open_fds EXCEPT ![fd] = 0],
      close_calls |-> k.close_calls \cup {<<fd, k.open_fds[fd]>>},
      n |-> k.n + 1 ]

\* remove_client that closes the descriptor whether or not it has an entry
remove_client_unchecked(w, fd) ==
    [ clients_ |-> [f \in DOMAIN w.clients_ \ {fd} |-> w.clients_[f]],
      k |-> Close(w.k, fd) ]

\* remove_client on w = [clients_, k]
remove_client(w, fd) ==
    IF fd \in DOMAIN w.clients_
    THEN [ clients_ |-> [f \in DOMAIN w.clients_ \ {fd} |-> w.clients_[f]],
           k |-> Close(w.k, fd) ]
    ELSE w

\* ~ClientManager: closes the descriptors of fds, the entries left
RECURSIVE CloseAll(_, _)
CloseAll(k, fds) ==
    IF fds = {} THEN k
    ELSE LET fd == CHOOSE f \in fds : TRUE IN CloseAll(Close(k, fd), fds \ {fd})

\* handle_subscription that makes the entry anew
handle_subscription_anew(cs, fd, symbol_ids) ==
    IF fd \notin DOMAIN cs THEN cs
    ELSE [cs EXCEPT ![fd] = [NewConnection(fd, cs[fd].port) EXCEPT
                               !.subscribed_symbols = symbol_ids,
                               !.subscribe_all = (symbol_ids = {})]]

\* handle_subscription(fd, symbol_ids, count): symbol_ids as a set, count = 0
\* when it is empty
handle_subscription(cs, fd, symbol_ids) ==
    IF fd \notin DOMAIN cs THEN cs
    ELSE [cs EXCEPT ![fd].subscribed_symbols = symbol_ids,
                    ![fd].subscribe_all = (symbol_ids = {})]

mark_slow_consumer(cs, fd) ==
    IF fd \in DOMAIN cs
    THEN [cs EXCEPT ![fd].is_slow = TRUE, ![fd].slow_consumer_count = @ + 1]
    ELSE cs

clear_slow_status(cs, fd) ==
    IF fd \in DOMAIN cs THEN [cs EXCEPT ![fd].is_slow = FALSE] ELSE cs

\* send_to_client that takes a partial send for a send
send_to_client_any_sent(cs, fd, len, a, slow_threshold_) ==
    IF fd \notin DOMAIN cs THEN [clients_ |-> cs, ok |-> FALSE]
    ELSE
    LET pending == a.pending
        c1 == [cs EXCEPT ![fd].pending_bytes = pending]
    IN  IF pending > slow_threshold_
        THEN [clients_ |-> mark_slow_consumer(c1, fd), ok |-> FALSE]
        ELSE IF a.outcome = "eagain"
        THEN [clients_ |-> mark_slow_consumer(c1, fd), ok |-> FALSE]
        ELSE IF a.outcome = "error"
        THEN [clients_ |-> c1, ok |-> FALSE]
        ELSE [clients_ |-> IF c1[fd].is_slow /\ pending < slow_threshold_ \div 2
                           THEN clear_slow_status(c1, fd) ELSE c1,
              ok |-> TRUE]

\* send_to_client(fd, data, len), the kernel answering a; ok is its result
send_to_client(cs, fd, len, a, slow_threshold_) ==
    IF fd \notin DOMAIN cs THEN [clients_ |-> cs, ok |-> FALSE]
    ELSE
    LET pending == a.pending
        c1 == [cs EXCEPT ![fd].pending_bytes = pending]
    IN  IF pending > slow_threshold_
        THEN [clients_ |-> mark_slow_consumer(c1, fd), ok |-> FALSE]
        ELSE IF a.outcome = "eagain"
        THEN [clients_ |-> mark_slow_consumer(c1, fd), ok |-> FALSE]
        ELSE IF a.outcome = "error"
        THEN [clients_ |-> c1, ok |-> FALSE]
        ELSE IF a.outcome = "partial"
        THEN [clients_ |-> mark_slow_consumer(c1, fd), ok |-> FALSE]
        ELSE [clients_ |-> IF c1[fd].is_slow /\ pending < slow_threshold_ \div 2
                           THEN clear_slow_status(c1, fd) ELSE c1,
              ok |-> TRUE]

\* a loop body that sends to the slow entries like to the others
BroadcastVisit_to_slow(st, fd, len, symbol_id, a, slow_threshold_) ==
    LET client == st.clients_[fd] IN
    IF ~ client.subscribe_all /\ symbol_id \notin client.subscribed_symbols
    THEN st
    ELSE LET r == send_to_client(st.clients_, fd, len, a, slow_threshold_) IN
         IF r.ok
         THEN [ clients_ |-> [r.clients_ EXCEPT ![fd].messages_sent = @ + 1,
                                                ![fd].bytes_sent = @ + len],
                count |-> st.count + 1,
                called |-> st.called \cup {fd} ]
         ELSE [ clients_ |-> r.clients_, count |-> st.count,
                called |-> st.called \cup {fd} ]

\* the body of the loop of broadcast for one entry; st = [clients_, count,
\* called], called the descriptors send_to_client was called for
BroadcastVisit(st, fd, len, symbol_id, a, slow_threshold_) ==
    LET client == st.clients_[fd] IN
    IF client.is_slow THEN st
    ELSE IF ~ client.subscribe_all /\ symbol_id \notin client.subscribed_symbols
    THEN st
    ELSE LET r == send_to_client(st.clients_, fd, len, a, slow_threshold_) IN
         IF r.ok
         THEN [ clients_ |-> [r.clients_ EXCEPT ![fd].messages_sent = @ + 1,
                                                ![fd].bytes_sent = @ + len],
                count |-> st.count + 1,
                called |-> st.called \cup {fd} ]
         ELSE [ clients_ |-> r.clients_, count |-> st.count,
                called |-> st.called \cup {fd} ]

\* a loop that ends at the first entry it cannot send to
RECURSIVE BroadcastUntilBlocked(_, _, _, _, _, _)
BroadcastUntilBlocked(st, order, len, symbol_id, answers, slow_threshold_) ==
    IF order = <<>> THEN st
    ELSE LET fd == Head(order)
             nx == BroadcastVisit(st, fd, len, symbol_id, answers[fd], slow_threshold_)
         IN  IF st.clients_[fd].is_slow \/ nx.clients_[fd].is_slow THEN nx
             ELSE BroadcastUntilBlocked(nx, Tail(order), len, symbol_id, answers,
                                        slow_threshold_)

\* the loop of broadcast over the entries in the map's iteration order
RECURSIVE BroadcastLoop(_, _, _, _, _, _)
BroadcastLoop(st, order, len, symbol_id, answers, slow_threshold_) ==
    IF order = <<>> THEN st
    ELSE BroadcastLoop(
            BroadcastVisit(st, Head(order), len, symbol_id, answers[Head(order)],
                           slow_threshold_),
            Tail(order), len, symbol_id, answers, slow_threshold_)

\* broadcast(data, len, symbol_id): count is its result
broadcast(cs, order, len, symbol_id, answers, slow_threshold_) ==
    BroadcastLoop([clients_ |-> cs, count |-> 0, called |-> {}],
                  order, len, symbol_id, answers, slow_threshold_)

\* send_heartbeat: send_to_client for every descriptor of get_all_client_fds
RECURSIVE HeartbeatLoop(_, _, _, _, _)
HeartbeatLoop(cs, order, len, answers, slow_threshold_) ==
    IF order = <<>> THEN cs
    ELSE HeartbeatLoop(
            send_to_client(cs, Head(order), len, answers[Head(order)],
                           slow_threshold_).clients_,
            Tail(order), len, answers, slow_threshold_)

\* the orders in which the entries of a map can be iterated
Orders(S) ==
    {o \in [1..Cardinality(S) -> S] : \A i, j \in 1..Cardinality(S) : i # j => o[i] # o[j]}

\* what send() did for a descriptor in one operation: not called ("none"),
\* or the answer's outcome
SendsOf(called, answers, slow_threshold_) ==
    [fd \in FDs |->
        IF fd \notin called THEN "none"
        ELSE IF answers[fd].pending > slow_threshold_ THEN "none"
        ELSE answers[fd].outcome]

Event(op, fd, had_entry, closes, called, sends, len, symbol_id, count) ==
    [op |-> op, fd |-> fd, had_entry |-> had_entry,
     closes |-> closes, called |-> called, sends |-> sends,
     len |-> len, symbol_id |-> symbol_id, count |-> count]

NoSends == [fd \in FDs |-> "none"]

\* the manager as its constructor leaves it, no socket open
ManagerConstructed ==
    /\ clients_ = <<>>
    /\ totals = [messages |-> 0, bytes |-> 0]
    /\ open_fds = [fd \in FDs |-> 0]
    /\ close_calls = {}
    /\ destroyed = FALSE
    /\ accepted = 0
    /\ send_calls = 0
    /\ evt = [op |-> "none", fd |-> 0, had_entry |-> FALSE,
              closes |-> 0, called |-> {}, sends |-> NoSends,
              len |-> 0, symbol_id |-> 0, count |-> 0]

\* A client socket's receiving side.  rx: the subscription requests received
\* that recv has not returned yet, each the set of its symbols; fin: the
\* peer's FIN has arrived, recv returns 0 once rx is drained; err: a reset
\* has arrived (EPOLLERR | EPOLLHUP); ready: the descriptor is in epoll's
\* ready list (edge-triggered: put there when something arrives, taken off
\* when epoll_wait reports it); peer: what the peer has done with its end.
\* Where the requests are followed byte by byte, rx is the bytes themselves
\* and written the number of messages the peer has written.
NoSocket ==
    [rx |-> <<>>, fin |-> FALSE, err |-> FALSE, ready |-> FALSE, peer |-> "none",
     written |-> 0]

NewSocket == [NoSocket EXCEPT !.peer = "open"]

\* no client socket yet
LoopConstructed == sock = [fd \in FDs |-> NoSocket]

\* FeedHandlerConfig as main() leaves it without options: all symbols,
\* reconnecting
DefaultConfig == [subscribe_symbols |-> <<>>, auto_reconnect |-> TRUE]

\* no connection
NoLink == [via |-> "none", sent |-> <<>>, chunks |-> 0, up |-> FALSE]

\* MarketDataSocket and FeedHandler as constructed; fd_open is fd_ >= 0
RunConstructed ==
    /\ config_ = DefaultConfig
    /\ sk = [connected_ |-> FALSE, fd_open |-> FALSE,
             reconnect_count_ |-> 0, current_backoff_ms_ |-> 100]
    /\ fh = [running_ |-> FALSE, at |-> "main", in_wait |-> FALSE]
    /\ link = NoLink
    /\ naps = <<>>

\* ExchangeSimulator and TickGenerator as constructed; since_heartbeat is
\* now - last_heartbeat at the loop's last reading of the clock
StreamConstructed ==
    /\ sim = [sequence_ |-> Zero32, fault_injection_ |-> FALSE,
              fault_skip_counter_ |-> 0, since_heartbeat |-> 0]
    /\ made = <<>>

\* nothing applied whole, nothing asked
NoOut == [op |-> "none"]

QuietConstructed == applied = <<>> /\ out = NoOut

\* latency_tracker.h: the histogram's geometry
NUM_BUCKETS == 1000
BUCKET_WIDTH_NS == 1000
MAX_TRACKED_NS == NUM_BUCKETS * BUCKET_WIDTH_NS

\* stands for 2^64 - 1: the largest value of the model's integers; no
\* sample reaches it
UINT64_MAX == 2147483647

\* the threads that call record
Recorders == {"a", "b"}

\* LatencyTracker after reset().  histogram_ and ring_buffer_ hold the
\* elements that have been written since; the others are 0.
NewTracker ==
    [sample_count_ |-> 0, sum_ |-> 0, min_ |-> UINT64_MAX, max_ |-> 0,
     overflow_count_ |-> 0, histogram_ |-> <<>>, write_index_ |-> 0,
     ring_buffer_ |-> <<>>]

RecorderIdle == [pc |-> "idle", latency_ns |-> 0, current |-> 0, idx |-> 0, calls |-> 0]

TrackerConstructed ==
    /\ tracker = NewTracker
    /\ recorders = [t \in Recorders |-> RecorderIdle]
    /\ samples = <<>>

\* blocks of the pool (num_blocks_), by number: block b is at
\* aligned_base_ + (b - 1) * block_size_; 0 is nullptr
NumBlocks == 3
Blocks == 1..NumBlocks

\* the threads that use the pool
Threads == {"t1", "t2"}

\* MemoryPool after reset(): every block pushed in turn
NewPool ==
    [free_list_ |-> NumBlocks, next |-> [b \in Blocks |-> b - 1], allocated_count_ |-> 0]

\* a thread outside any call: the blocks it holds, the calls it has made,
\* and the last of them with its argument and result
UserIdle ==
    [pc |-> "idle", node |-> 0, next |-> 0, expected |-> 0, held |-> {},
     calls |-> 0, last |-> "none", arg |-> 0, result |-> 0]

PoolConstructed ==
    /\ pool = NewPool
    /\ users = [t \in Threads |-> UserIdle]

\* the subsystems beyond parser, cache and manager as constructed
\* sockets a consumer process creates in a run
MaxSockets == 3

\* MarketDataSocket and the FeedHandler that owns it, as constructed.  fd_ is
\* 0 where the code has -1, else the socket it names; the kernel's sockets
\* are numbered as they are created (open: those not closed yet, registered:
\* those in the epoll set, closes: the close calls made on each).  at is
\* where the handler's thread is, caller and ok the call of do_connect it is
\* in or has returned from, signals the signals delivered.
NewHandler ==
    [ at |-> "main", caller |-> "none", ok |-> FALSE,
      fd_ |-> 0, connected_ |-> FALSE, running_ |-> FALSE,
      reconnect_count_ |-> 0, auto_reconnect |-> TRUE,
      made |-> 0, open |-> {}, registered |-> {},
      closes |-> [i \in 1..MaxSockets |-> 0],
      signals |-> 0 ]

SocketConstructed == mds = NewHandler

RestConstructed ==
    /\ LoopConstructed /\ RunConstructed /\ StreamConstructed
    /\ QuietConstructed /\ TrackerConstructed /\ PoolConstructed
    /\ SocketConstructed

\* the kernel's table and the close calls, none yet made by this operation
Kernel == [open_fds |-> open_fds, close_calls |-> close_calls, n |-> 0]

\* handle_new_connection, for one pending connection: accept returns the
\* lowest descriptor that is not open
AcceptClient(fd) ==
    /\ ~ destroyed
    /\ accepted < MaxConns
    /\ open_fds[fd] = 0
    /\ \A lower \in FDs : lower < fd => open_fds[lower] # 0
    /\ accepted' = accepted + 1
    /\ open_fds' = [open_fds EXCEPT ![fd] = accepted + 1]
    /\ clients_' = add_client(clients_, fd, accepted + 1)
    /\ evt' = Event("accept", fd, fd \in DOMAIN clients_, 0, {}, NoSends, 0, 0, 0)
    /\ UNCHANGED <<totals, close_calls, destroyed, send_calls>>

HandleNewConnection(fd) == AcceptClient(fd) /\ UNCHANGED notCMVars

\* handle_client_disconnect
Disconnect(fd) ==
    LET w == remove_client([clients_ |-> clients_,
                            k |-> Kernel], fd)
    IN  /\ clients_' = w.clients_
        /\ open_fds' = w.k.open_fds
        /\ close_calls' = w.k.close_calls
        /\ evt' = Event("disconnect", fd, fd \in DOMAIN clients_,
                        w.k.n, {}, NoSends, 0, 0, 0)
        /\ UNCHANGED <<totals, destroyed, accepted, send_calls>>

\* the symbol sets of the subscription requests: none (all symbols), one
Requests == {{}, {1}}

Received == {"eof", "eagain", "error", "other", "subscribe"}

\* the events epoll reports for a client socket, with what recv then returns
\* where it is called
ClientEvents ==
    {e \in [is_read : BOOLEAN, is_error : BOOLEAN, rcv : Received \cup {"none"},
            symbol_ids : Requests] :
        /\ (e.rcv = "none") <=> (e.is_error \/ ~ e.is_read)
        /\ e.rcv # "subscribe" => e.symbol_ids = {}
        /\ e.is_error => e.is_read}

\* handle_client_event(fd, is_read, is_error); rcv is what recv returns in
\* process_subscription: end of stream, nothing, an error, bytes that are no
\* subscription, or a subscription to a set of symbols
ClientEvent(fd, is_read, is_error, rcv, symbol_ids) ==
    /\ ~ destroyed
    /\ IF is_error THEN Disconnect(fd)
       ELSE IF ~ is_read THEN UNCHANGED cmVars
       ELSE IF rcv \in {"eof", "error"} THEN Disconnect(fd)
       ELSE IF rcv \in {"eagain", "other"} THEN UNCHANGED cmVars
       ELSE /\ clients_' = handle_subscription(clients_, fd, symbol_ids)
            /\ evt' = Event("subscribe", fd, fd \in DOMAIN clients_, 0, {}, NoSends, 0, 0, 0)
            /\ UNCHANGED <<totals, open_fds, close_calls, destroyed, accepted, send_calls>>

HandleClientEvent(fd, is_read, is_error, rcv, symbol_ids) ==
    ClientEvent(fd, is_read, is_error, rcv, symbol_ids) /\ UNCHANGED notCMVars

\* the answers of the kernel for the descriptors in S, none for the others
AnswersFor(S) ==
    {[fd \in FDs |-> IF fd \in S THEN f[fd] ELSE NoAnswer] : f \in [S -> Answers]}

\* the descriptors a broadcast writes to when every send goes through
Asked(len, symbol_id, order) ==
    broadcast(clients_, order, len, symbol_id,
              [fd \in FDs |-> [pending |-> 0, outcome |-> "full"]],
              SLOW_CONSUMER_THRESHOLD).called

\* generate_and_broadcast_tick
GenerateAndBroadcastTick(len, symbol_id, order) ==
    /\ ~ destroyed
    /\ DOMAIN clients_ # {}
    /\ send_calls + Cardinality(Asked(len, symbol_id, order)) <= MaxSends
    /\ \E answers \in AnswersFor(Asked(len, symbol_id, order)) :
       LET b == broadcast(clients_, order, len, symbol_id, answers, SLOW_CONSUMER_THRESHOLD) IN
       /\ send_calls' = send_calls + Cardinality(b.called)
       /\ clients_' = b.clients_
       /\ totals' = [messages |-> totals.messages + b.count,
                     bytes |-> totals.bytes + b.count * len]
       /\ evt' = Event("broadcast", 0, FALSE, 0, b.called,
                       SendsOf(b.called, answers, SLOW_CONSUMER_THRESHOLD),
                       len, symbol_id, b.count)
    /\ UNCHANGED <<open_fds, close_calls, destroyed, accepted, notCMVars>>

\* send_heartbeat
SendHeartbeat(order) ==
    /\ ~ destroyed
    /\ send_calls + Cardinality(DOMAIN clients_) <= MaxSends
    /\ send_calls' = send_calls + Cardinality(DOMAIN clients_)
    /\ \E answers \in AnswersFor(DOMAIN clients_) :
        /\ clients_' = HeartbeatLoop(clients_, order, HEARTBEAT_MSG_SIZE, answers,
                                     SLOW_CONSUMER_THRESHOLD)
        /\ evt' = Event("heartbeat", 0, FALSE, 0, DOMAIN clients_,
                        SendsOf(DOMAIN clients_, answers, SLOW_CONSUMER_THRESHOLD),
                        HEARTBEAT_MSG_SIZE, 0, 0)
    /\ UNCHANGED <<totals, open_fds, close_calls, destroyed, accepted, notCMVars>>

\* ~ClientManager
Destroy ==
    /\ ~ destroyed
    /\ LET k == CloseAll(Kernel, DOMAIN clients_) IN
       /\ open_fds' = k.open_fds
       /\ close_calls' = k.close_calls
       /\ evt' = Event("destroy", 0, FALSE, k.n, {}, NoSends, 0, 0, 0)
    /\ clients_' = <<>>
    /\ destroyed' = TRUE
    /\ UNCHANGED <<totals, accepted, send_calls, notCMVars>>

-----------------------------------------------------------------------------
(* The consumer fed from a stream of well-formed frames.                   *)

MaxFrames == 3          \* frames in a stream

Kinds == {TRADE, QUOTE, HEARTBEAT}

\* The publisher numbers its first frame 1 (TickGenerator pre-increments
\* sequence_); 2^32 - 2 is where a long-running stream is about to wrap.
StartSeqs == {<<1, 0, 0, 0>>, <<254, 255, 255, 255>>}

\* last: op is the operation, result what it returned, unread the unread
\* bytes when a parse_one or parse_messages began, calls and done the parse_one
\* calls of parse_messages, count the frames it accepted, oob the bytes
\* copied past the end of the buffer.
Op(op, result, unread, calls, done, count, oob) ==
    [op |-> op, result |-> result, unread |-> unread,
     calls |-> calls, done |-> done, count |-> count, oob |-> oob]

NoOp == Op("none", "none", 0, 0, TRUE, 0, 0)

\* seq + n on uint32_t
RECURSIVE Add32(_, _)
Add32(seq, n) == IF n = 0 THEN seq ELSE Add32(Inc32(seq), n - 1)

\* the frames of kinds ks numbered consecutively from seq, as <<kind, seq>>
FramesOf(ks, seq) == [i \in 1..Len(ks) |-> <<ks[i], Add32(seq, i - 1)>>]

RECURSIVE StreamOf(_)
StreamOf(frames) ==
    IF frames = <<>> THEN <<>>
    ELSE EncodeFrame(frames[1][1], frames[1][2], 0, 0) \o StreamOf(Tail(frames))

KindSeqs == UNION {[1..k -> Kinds] : k \in 1..MaxFrames}

FeedInit ==
    /\ CacheConstructed
    /\ ManagerConstructed
    /\ RestConstructed
    /\ parser = NewParser
    /\ crashed = FALSE
    /\ last = NoOp
    /\ \E ks \in KindSeqs, s \in StartSeqs :
          /\ sent = FramesOf(ks, s)
          /\ wire = StreamOf(FramesOf(ks, s))
          /\ next_seq = Add32(s, Len(ks))

\* One chunk of n bytes: append_data, then parse_messages (the body of the
\* loop of FeedHandler::process_data).  A copy past the end of buffer_ is
\* undefined behaviour: the process dies there, or the bytes land in the
\* memory behind the buffer and it goes on.
AppendThenParse(n) ==
    /\ ~ crashed
    /\ n \in 1..Len(wire)
    /\ LET a == append_data(parser, SubSeq(wire, 1, n))
           m == parse_messages(a.p)
       IN  /\ wire' = SubSeq(wire, n + 1, Len(wire))
           /\ \/ /\ a.oob > 0
                 /\ crashed' = TRUE
                 /\ parser' = a.p
                 /\ last' = Op("append_data", "crash", 0, 0, TRUE, 0, a.oob)
              \/ /\ crashed' = FALSE
                 /\ parser' = m.p
                 /\ last' = Op("feed", "parsed", Unread(a.p), m.calls, m.done, m.count, a.oob)
    /\ UNCHANGED <<sent, next_seq, notParserVars>>

\* The chunk lengths tried: single bytes, a few bytes, a header, each frame
\* length and one byte more, a full receive buffer, all that is on the wire.
ChunkSizes ==
    {1, 3, HEADER_SIZE, HEARTBEAT_MSG_SIZE, TRADE_MSG_SIZE, QUOTE_MSG_SIZE + 1,
     RECV_BUFFER_SIZE, Len(wire)}

\* FeedHandler::process_data: recv returns at most RECV_BUFFER_SIZE bytes
ProcessData ==
    \E n \in {c \in ChunkSizes : c <= RECV_BUFFER_SIZE} : AppendThenParse(n)

\* the parser's interface used chunk by chunk, with chunks of any length
FeedAnyChunk == \E n \in ChunkSizes : AppendThenParse(n)

SpecFeed == FeedInit /\ [][ProcessData]_vars

SpecChunks == FeedInit /\ [][FeedAnyChunk]_vars

RECURSIVE StreamLen(_)
StreamLen(frames) ==
    IF frames = <<>> THEN 0
    ELSE get_message_size(frames[1][1]) + StreamLen(Tail(frames))

\* the longest prefix of frames that lies within the first n bytes of the stream
RECURSIVE CompleteWithin(_, _)
CompleteWithin(frames, n) ==
    IF frames = <<>> \/ get_message_size(frames[1][1]) > n THEN <<>>
    ELSE <<frames[1]>> \o CompleteWithin(Tail(frames), n - get_message_size(frames[1][1]))

Fed == StreamLen(sent) - Len(wire)

\* C2: K well-formed frames with consecutive sequence numbers, cut into
\* chunks in any way and given chunk by chunk to append_data followed by
\* parse_messages, produce exactly the kind callbacks of the frames received
\* completely so far, in the frames' order (all K once the last chunk is in),
\* and sequence_gaps, checksum_errors and malformed_messages stay 0.
FragmentationDelivers ==
    /\ parser.delivered = CompleteWithin(sent, Fed)
    /\ wire = <<>> => parser.delivered = sent
    /\ parser.sequence_gaps_ = 0
    /\ parser.checksum_errors_ = 0
    /\ parser.malformed_messages_ = 0

-----------------------------------------------------------------------------
(* The parser's interface under any use: a peer that writes frames, skips  *)
(* sequence numbers and sends damaged frames, one piece at a time once the *)
(* piece before has been received; append_data, parse_one, parse_messages, *)
(* reset and set_expected_sequence called in any order.                    *)

MaxPieces == 2          \* pieces (frames, damaged frames) the peer writes

\* the kinds of the frames that come after a skipped sequence number: one
\* with a payload, one without
GapKinds == {TRADE, HEARTBEAT}

\* sequence numbers a caller resynchronises the parser to
ResyncSeqs == {<<9, 0, 0, 0>>}

\* the frame with its last checksum byte inverted
Corrupted(frame) == [frame EXCEPT ![Len(frame)] = XorByte[@][255]]

ParserInit ==
    /\ CacheConstructed
    /\ ManagerConstructed
    /\ RestConstructed
    /\ parser = NewParser
    /\ crashed = FALSE
    /\ last = NoOp
    /\ wire = <<>>
    /\ sent = <<>>
    /\ next_seq = Max32

\* The peer writes a frame.  skip = 1: the sequence number before it was
\* used up by a frame this consumer was not sent.
PeerFrame(kind, skip) ==
    /\ ~ crashed
    /\ wire = <<>>
    /\ Len(sent) < MaxPieces
    /\ LET seq == Add32(next_seq, skip) IN
       /\ wire' = wire \o EncodeFrame(kind, seq, 0, 0)
       /\ sent' = Append(sent, <<kind, seq>>)
       /\ next_seq' = Inc32(seq)
    /\ UNCHANGED <<parser, crashed, last, notParserVars>>

\* a frame damaged on the way; sent records it with kind 0
PeerCorrupt(kind) ==
    /\ ~ crashed
    /\ wire = <<>>
    /\ Len(sent) < MaxPieces
    /\ wire' = wire \o Corrupted(EncodeFrame(kind, next_seq, 0, 0))
    /\ sent' = Append(sent, <<0, next_seq>>)
    /\ next_seq' = Inc32(next_seq)
    /\ UNCHANGED <<parser, crashed, last, notParserVars>>

AppendData(n) ==
    /\ ~ crashed
    /\ n \in 1..Len(wire)
    /\ LET a == append_data(parser, SubSeq(wire, 1, n)) IN
       /\ wire' = SubSeq(wire, n + 1, Len(wire))
       /\ parser' = a.p
       /\ \/ a.oob > 0 /\ crashed' = TRUE
          \/ crashed' = FALSE
       /\ last' = Op("append_data", IF crashed' THEN "crash" ELSE "copied",
                     0, 0, TRUE, 0, a.oob)
    /\ UNCHANGED <<sent, next_seq, notParserVars>>

ParseOne ==
    /\ ~ crashed
    /\ LET r == parse_one(parser) IN
       /\ parser' = r.p
       /\ last' = Op("parse_one", r.result, Unread(parser), 1, TRUE,
                     IF r.result \in {"SUCCESS", "SEQUENCE_GAP"} THEN 1 ELSE 0, 0)
    /\ UNCHANGED <<wire, sent, next_seq, crashed, notParserVars>>

ParseMessages ==
    /\ ~ crashed
    /\ LET m == parse_messages(parser) IN
       /\ parser' = m.p
       /\ last' = Op("parse_messages", "parsed", Unread(parser), m.calls, m.done,
                     m.count, 0)
    /\ UNCHANGED <<wire, sent, next_seq, crashed, notParserVars>>

\* reset, called when the stream starts anew on another connection: what
\* was in flight on the old one is gone
Reset ==
    /\ ~ crashed
    /\ parser' = reset(parser)
    /\ wire' = <<>>
    /\ last' = Op("reset", "none", 0, 0, TRUE, 0, 0)
    /\ UNCHANGED <<sent, next_seq, crashed, notParserVars>>

\* set_expected_sequence(seq)
SetExpectedSequence(seq) ==
    /\ ~ crashed
    /\ parser' = [parser EXCEPT !.expected_sequence_ = seq]
    /\ last' = Op("set_expected_sequence", "none", 0, 0, TRUE, 0, 0)
    /\ UNCHANGED <<wire, sent, next_seq, crashed, notParserVars>>

ParserNext ==
    \/ \E kind \in Kinds : PeerFrame(kind, 0)
    \/ \E kind \in GapKinds : PeerFrame(kind, 1)
    \/ PeerCorrupt(HEARTBEAT)
    \/ \E n \in {HEADER_SIZE + 1, Len(wire)} : AppendData(n)
    \/ ParseOne
    \/ ParseMessages
    \/ Reset
    \/ \E seq \in ResyncSeqs : SetExpectedSequence(seq)

SpecParser == ParserInit /\ [][ParserNext]_vars

\* What lies at the read cursor: ok when it is a whole frame of a known kind
\* with a valid checksum, and then its kind, length and sequence number.
AtCursor(p) ==
    LET type == IF Unread(p) >= HEADER_SIZE THEN ReadLE(p.buffer_, p.read_pos_, 2) ELSE 0
        size == get_message_size(type)
        ok   == /\ size > 0
                /\ Unread(p) >= size
                /\ validate_checksum(MsgBytes(p, size), size)
    IN  [ ok |-> ok, type |-> type, size |-> size,
          seq |-> IF ok THEN SubSeq(p.buffer_, p.read_pos_ + 3, p.read_pos_ + 6)
                  ELSE Zero32 ]

\* a step that is one call of parse_one which changed the parser
ParseOneStep == last'.op = "parse_one" /\ parser' # parser

\* C6: when parse_one accepts a frame with a valid checksum whose sequence
\* number differs from expected_sequence_, and it is not the first frame, it
\* calls the gap callback once with (expected, received), adds exactly 1 to
\* sequence_gaps, still calls the frame's kind callback, advances the read
\* cursor by the frame's length and returns SEQUENCE_GAP; the first frame
\* after construction or reset reports no gap.
GapReportedFrameDelivered ==
    [][ (ParseOneStep /\ AtCursor(parser).ok) =>
          LET f == AtCursor(parser) IN
          IF ~ parser.first_message_ /\ f.seq # parser.expected_sequence_
          THEN /\ parser'.gaps = Append(parser.gaps, <<parser.expected_sequence_, f.seq>>)
               /\ parser'.sequence_gaps_ = parser.sequence_gaps_ + 1
               /\ parser'.delivered = Append(parser.delivered, <<f.type, f.seq>>)
               /\ parser'.read_pos_ = parser.read_pos_ + f.size
               /\ last'.result = "SEQUENCE_GAP"
          ELSE parser.first_message_ =>
                 /\ parser'.gaps = parser.gaps
                 /\ parser'.sequence_gaps_ = parser.sequence_gaps_
                 /\ last'.result = "SUCCESS"
      ]_vars

\* parse_one has just returned SEQUENCE_GAP for the second frame it accepted
GapReported ==
    /\ last.op = "parse_one"
    /\ last.result = "SEQUENCE_GAP"
    /\ Len(parser.gaps) = 1
    /\ Len(parser.delivered) = 2
    /\ parser.sequence_gaps_ = 1

\* w + 1 modulo 2^32, computed on the two 16-bit halves of w
Succ32(w) ==
    LET lo == w[1] + 256 * w[2]
        hi == w[3] + 256 * w[4]
    IN  IF lo < 65535 THEN LE(lo + 1, 2) \o LE(hi, 2)
        ELSE IF hi < 65535 THEN LE(0, 2) \o LE(hi + 1, 2)
        ELSE LE(0, 2) \o LE(0, 2)

\* the sequence number of the frame accepted last
LastAccepted == parser.delivered[Len(parser.delivered)][2]

\* C7: after every accepted frame expected_sequence_ is that frame's
\* sequence number + 1 modulo 2^32; an accepted frame numbered 2^32 - 1
\* followed by a frame numbered 0 (expected_sequence_ not set by the caller
\* in between) reports no gap.
ExpectedIsSuccessor ==
    /\ []( (last.op \in {"parse_one", "parse_messages"} /\ last.count > 0)
             => parser.expected_sequence_ = Succ32(LastAccepted) )
    /\ [][ ( /\ ParseOneStep
             /\ AtCursor(parser).ok
             /\ parser.delivered # <<>>
             /\ LastAccepted = Max32
             /\ parser.expected_sequence_ = Succ32(LastAccepted)
             /\ AtCursor(parser).seq = Zero32 ) =>
               /\ parser'.gaps = parser.gaps
               /\ parser'.sequence_gaps_ = parser.sequence_gaps_
               /\ last'.result = "SUCCESS"
       ]_vars

\* frame 2^32 - 1 and then frame 0 have been accepted, and no gap reported
WrapAccepted ==
    /\ Len(parser.delivered) >= 2
    /\ parser.delivered[1][2] = Max32
    /\ parser.delivered[2][2] = Zero32
    /\ parser.expected_sequence_ = <<1, 0, 0, 0>>
    /\ parser.gaps = <<>>
    /\ last.op = "parse_one"
    /\ last.result = "SUCCESS"

\* C8: parse_messages terminates: a parse_one call that does not return
\* NEED_MORE_DATA advances the read cursor by at least one byte, and one
\* parse_messages makes at most (unread bytes + 1) parse_one calls, whatever
\* the buffer holds.
ParseMessagesTerminates ==
    /\ (last.op = "parse_one" /\ last.result # "NEED_MORE_DATA")
          => Unread(parser) <= last.unread - 1
    /\ last.op = "parse_messages"
          => /\ last.done
             /\ last.calls <= last.unread + 1

\* a parse_messages that skipped over garbage byte by byte and returned
GarbageDrained ==
    /\ last.op = "parse_messages"
    /\ last.done
    /\ last.calls >= 3
    /\ parser.checksum_errors_ > 0
    /\ parser.malformed_messages_ > 0

\* C9: after any append_data (of any length), parse_one and parse_messages
\* calls, 0 <= read_pos_ <= write_pos_ <= capacity <= MAX_BUFFER_SIZE, and
\* append_data has copied nothing past the end of the buffer.
BufferBounds ==
    /\ 0 <= parser.read_pos_
    /\ parser.read_pos_ <= parser.write_pos_
    /\ parser.write_pos_ <= parser.capacity
    /\ parser.capacity <= MAX_BUFFER_SIZE
    /\ last.oob = 0

-----------------------------------------------------------------------------
(* The cache, one writer and the readers.                                  *)

\* the parser as its constructor leaves it, nothing on the wire
ParserConstructed ==
    /\ parser = NewParser
    /\ wire = <<>>
    /\ sent = <<>>
    /\ next_seq = Zero32
    /\ crashed = FALSE
    /\ last = NoOp

CacheInit ==
    /\ CacheConstructed
    /\ ParserConstructed
    /\ ManagerConstructed
    /\ RestConstructed

CacheNext ==
    \/ \E kind \in UpdateKinds, symbol_id \in SymbolIds : UpdateBegin(kind, symbol_id)
    \/ UpdateStore
    \/ UpdateEnd
    \/ \E r \in Readers, symbol_id \in SymbolIds : GetSnapshot(r, symbol_id)
    \/ \E r \in Readers : LoadSeq1(r)
    \/ \E r \in Readers : CopyField(r)
    \/ \E r \in Readers : LoadSeq2(r)

SpecCache == CacheInit /\ [][CacheNext]_vars

\* C1: every snapshot get_snapshot returns, whatever the interleaving with
\* the writer's updates, is the state the entry had after some complete
\* update or the zero state (all zero also for a symbol out of range); it
\* never holds fields of two different updates.
SnapshotsAreCommitted ==
    \A r \in Readers : readers[r].returned => readers[r].result \in committed

\* a snapshot returned after the reader had to go round the loop again,
\* showing an update
SnapshotAfterRetry ==
    \E r \in Readers :
        /\ readers[r].returned
        /\ readers[r].retried
        /\ readers[r].result.update_count >= 1
        /\ readers[r].result \in committed

-----------------------------------------------------------------------------
(* The publisher: connections come and go, subscribe, and are sent ticks   *)
(* and heartbeats.                                                         *)

CMInit ==
    /\ ManagerConstructed
    /\ ParserConstructed
    /\ CacheConstructed
    /\ RestConstructed

CMNext ==
    \/ \E fd \in FDs : HandleNewConnection(fd)
    \/ \E fd \in FDs, e \in ClientEvents :
            HandleClientEvent(fd, e.is_read, e.is_error, e.rcv, e.symbol_ids)
    \/ \E len \in TickSizes, symbol_id \in Symbols,
          order \in Orders(DOMAIN clients_) :
            GenerateAndBroadcastTick(len, symbol_id, order)
    \/ \E order \in Orders(DOMAIN clients_) : SendHeartbeat(order)
    \/ Destroy

SpecCM == CMInit /\ [][CMNext]_vars
-----------------------------------------------------------------------------
\* C3: broadcast calls send_to_client for exactly the entries that are not
\* slow and that subscribe to everything or to the tick's symbol; it returns
\* the number of them the whole payload was sent to; an entry's messages_sent
\* and bytes_sent grow by one message and len bytes for such a send and stay
\* as they are otherwise.
Receivers(symbol_id) ==
    {fd \in DOMAIN clients_ :
        /\ ~ clients_[fd].is_slow
        /\ \/ clients_[fd].subscribe_all
           \/ symbol_id \in clients_[fd].subscribed_symbols}

FullySent(e) == {fd \in e.called : e.sends[fd] = "full"}

SameClient(fd) ==
    /\ fd \in DOMAIN clients_
    /\ fd \in DOMAIN clients_'
    /\ clients_'[fd].port = clients_[fd].port

BroadcastCounts ==
    [][ /\ evt'.op = "broadcast" =>
            /\ evt'.called = Receivers(evt'.symbol_id)
            /\ evt'.count = Cardinality(FullySent(evt'))
            /\ \A fd \in DOMAIN clients_ :
                /\ SameClient(fd)
                /\ clients_'[fd].messages_sent = clients_[fd].messages_sent
                      + (IF fd \in FullySent(evt') THEN 1 ELSE 0)
                /\ clients_'[fd].bytes_sent = clients_[fd].bytes_sent
                      + (IF fd \in FullySent(evt') THEN evt'.len ELSE 0)
        /\ evt'.op # "broadcast" =>
            \A fd \in FDs : SameClient(fd) =>
                /\ clients_'[fd].messages_sent = clients_[fd].messages_sent
                /\ clients_'[fd].bytes_sent = clients_[fd].bytes_sent
      ]_cmVars

\* a broadcast that passed over a slow entry and sent the payload to another
SlowSkippedOtherCounted ==
    /\ evt.op = "broadcast"
    /\ evt.count = 1
    /\ \E fd \in DOMAIN clients_ : fd \notin evt.called /\ clients_[fd].is_slow
    /\ \E fd \in evt.called : clients_[fd].messages_sent = 1

\* C4: is_slow of a connection turns true only in a send_to_client for it
\* that found the queue above the threshold, or whose send would block or
\* was partial; it turns false only in a send_to_client for it that sent the
\* whole payload with the queue below half the threshold; no other step
\* changes it.
SlowIsSticky ==
    [][ \A fd \in FDs :
          (SameClient(fd) /\ clients_'[fd].is_slow # clients_[fd].is_slow) =>
            /\ evt'.op \in {"broadcast", "heartbeat"}
            /\ fd \in evt'.called
            /\ IF clients_'[fd].is_slow
               THEN \/ clients_'[fd].pending_bytes > SLOW_CONSUMER_THRESHOLD
                    \/ evt'.sends[fd] \in {"eagain", "partial"}
               ELSE /\ evt'.sends[fd] = "full"
                    /\ clients_'[fd].pending_bytes < SLOW_CONSUMER_THRESHOLD \div 2
      ]_cmVars

\* a connection marked slow before, cleared by the send just made
SlowCleared ==
    \E fd \in DOMAIN clients_ :
        /\ clients_[fd].slow_consumer_count > 0
        /\ ~ clients_[fd].is_slow
        /\ evt.op \in {"broadcast", "heartbeat"}
        /\ fd \in evt.called
        /\ evt.sends[fd] = "full"

\* C5: what a broadcast does for an entry A (whether send_to_client is called
\* for it, its counters, its is_slow) is what the same broadcast does in a
\* manager that holds A alone, given the same answer of the kernel for A; so
\* it is the same in any two runs that differ in another entry B only, and a
\* slow or blocking B neither prevents the send to A nor moves it to a later
\* broadcast.
Alone(fd) == [f \in {fd} |-> clients_[f]]

\* the answer of the kernel the step made for fd, read off the step
AnswerTo(fd) ==
    [fd2 \in FDs |->
        [pending |-> clients_'[fd].pending_bytes,
         outcome |-> IF evt'.sends[fd] = "none" THEN "eagain" ELSE evt'.sends[fd]]]

BroadcastIsolation ==
    [][ evt'.op = "broadcast" =>
          \A fd \in DOMAIN clients_ :
            LET solo == broadcast(Alone(fd), <<fd>>, evt'.len, evt'.symbol_id,
                                  AnswerTo(fd), SLOW_CONSUMER_THRESHOLD)
            IN  /\ fd \in DOMAIN clients_'
                /\ clients_'[fd] = solo.clients_[fd]
                /\ (fd \in evt'.called) <=> (fd \in solo.called)
      ]_cmVars

\* a broadcast in which the send to one entry would block and another entry
\* got the whole payload
BlockedPeerOtherSent ==
    /\ evt.op = "broadcast"
    /\ \E a, b \in evt.called :
        /\ a # b
        /\ evt.sends[b] = "eagain"
        /\ clients_[b].is_slow
        /\ evt.sends[a] = "full"
        /\ clients_[a].messages_sent = 1

\* C10: no close is made on a descriptor that is not open; a descriptor has
\* an entry exactly while its socket is open, and the entry is the one of
\* the connection behind it; every accepted connection is either open or
\* was closed; after the destructor none is open; a disconnect closes one
\* socket when the descriptor has an entry and none when it has not.
WasClosed(port) == \E fd \in FDs : <<fd, port>> \in close_calls

SocketsClosedOnce ==
    /\ \A c \in close_calls : c[2] # 0
    /\ \A fd \in FDs : (fd \in DOMAIN clients_) <=> (open_fds[fd] # 0)
    /\ \A fd \in DOMAIN clients_ : clients_[fd].port = open_fds[fd]
    /\ \A port \in 1..accepted :
          WasClosed(port) <=> (\A fd \in FDs : open_fds[fd] # port)
    /\ destroyed => \A fd \in FDs : open_fds[fd] = 0
    /\ evt.op = "disconnect" => evt.closes = (IF evt.had_entry THEN 1 ELSE 0)

\* a disconnect for a descriptor without an entry, after its earlier socket
\* was closed, with another connection open
DetachWithoutEntry ==
    /\ evt.op = "disconnect"
    /\ ~ evt.had_entry
    /\ evt.closes = 0
    /\ \E port \in 1..accepted : <<evt.fd, port>> \in close_calls
    /\ clients_ # <<>>

-----------------------------------------------------------------------------
\* C11: a subscriber whose send just failed with a connection error (not
\* would-block) has been detached by the end of that broadcast or heartbeat:
\* it has no entry any more.
SendErrorDetaches ==
    \A fd \in FDs :
        ( /\ evt.op \in {"broadcast", "heartbeat"}
          /\ fd \in evt.called
          /\ evt.sends[fd] = "error" ) => fd \notin DOMAIN clients_

-----------------------------------------------------------------------------
(* The publisher's loop seen from the client sockets: requests, FIN and    *)
(* reset arrive from the peers, epoll_wait reports the descriptors in its  *)
(* ready list (EPOLLIN | EPOLLET | EPOLLRDHUP), handle_client_event runs   *)
(* for each, and a heartbeat goes to every entry once a second.            *)

MaxQueued == 2          \* requests waiting in a socket's receive queue

\* handle_new_connection, with the socket it accepts
LoopAccept(fd) ==
    /\ AcceptClient(fd)
    /\ sock' = [sock EXCEPT ![fd] = NewSocket]
    /\ UNCHANGED notLoopVars

\* the peer sends a subscription request
PeerSubscribes(fd, symbol_ids) ==
    /\ open_fds[fd] # 0
    /\ sock[fd].peer = "open"
    /\ Len(sock[fd].rx) < MaxQueued
    /\ sock' = [sock EXCEPT ![fd].rx = Append(@, symbol_ids), ![fd].ready = TRUE]
    /\ UNCHANGED <<cmVars, notLoopVars>>

\* the peer shuts down its sending side (FIN) and goes on reading
PeerShutsDown(fd) ==
    /\ open_fds[fd] # 0
    /\ sock[fd].peer = "open"
    /\ sock' = [sock EXCEPT ![fd].peer = "shut", ![fd].fin = TRUE, ![fd].ready = TRUE]
    /\ UNCHANGED <<cmVars, notLoopVars>>

\* the peer closes its socket (FIN, if none was sent before)
PeerCloses(fd) ==
    /\ open_fds[fd] # 0
    /\ sock[fd].peer \in {"open", "shut"}
    /\ sock' = [sock EXCEPT ![fd].peer = "closed", ![fd].fin = TRUE,
                            ![fd].ready = (@ \/ ~ sock[fd].fin)]
    /\ UNCHANGED <<cmVars, notLoopVars>>

\* the peer aborts the connection (RST)
PeerResets(fd) ==
    /\ open_fds[fd] # 0
    /\ sock[fd].peer = "open"
    /\ sock' = [sock EXCEPT ![fd].peer = "reset", ![fd].err = TRUE, ![fd].ready = TRUE]
    /\ UNCHANGED <<cmVars, notLoopVars>>

\* the kernel's answers to the sends of a heartbeat: the queues are empty, a
\* socket that was reset fails
LoopAnswers ==
    [fd \in FDs |->
        IF fd \notin DOMAIN clients_ THEN NoAnswer
        ELSE [pending |-> 0, outcome |-> IF sock[fd].err THEN "error" ELSE "full"]]

\* send_heartbeat; a peer that has closed answers the segment with a reset
LoopHeartbeat(order) ==
    /\ ~ destroyed
    /\ clients_' = HeartbeatLoop(clients_, order, HEARTBEAT_MSG_SIZE, LoopAnswers,
                                 SLOW_CONSUMER_THRESHOLD)
    /\ evt' = Event("heartbeat", 0, FALSE, 0, DOMAIN clients_,
                    SendsOf(DOMAIN clients_, LoopAnswers, SLOW_CONSUMER_THRESHOLD),
                    HEARTBEAT_MSG_SIZE, 0, 0)
    /\ sock' = [fd \in FDs |->
                  IF fd \in DOMAIN clients_ /\ sock[fd].peer = "closed"
                  THEN [sock[fd] EXCEPT !.peer = "reset", !.err = TRUE, !.ready = TRUE]
                  ELSE sock[fd]]
    /\ UNCHANGED <<totals, open_fds, close_calls, destroyed, accepted, send_calls>>
    /\ UNCHANGED notLoopVars

\* what recv(client_fd, buffer, 1024, MSG_DONTWAIT) returns in
\* process_subscription: the requests that wait (the first decides),
\* end of stream, or nothing
RecvOf(k) ==
    IF k.rx # <<>> THEN "subscribe" ELSE IF k.fin THEN "eof" ELSE "eagain"

\* run: epoll_wait reports fd, handle_client_event(fd, is_read, is_error).
\* EPOLLRDHUP is not looked at; recv is called once and takes what waits.
LoopEvent(fd) ==
    /\ open_fds[fd] # 0
    /\ sock[fd].ready
    /\ LET k == sock[fd]
           is_error == k.err
           is_read == k.rx # <<>> \/ k.fin \/ k.err
       IN  /\ ClientEvent(fd, is_read, is_error,
                          IF is_error \/ ~ is_read THEN "none" ELSE RecvOf(k),
                          IF k.rx # <<>> THEN Head(k.rx) ELSE {})
           /\ sock' = [sock EXCEPT ![fd] =
                         IF open_fds'[fd] = 0 THEN NoSocket
                         ELSE [k EXCEPT !.ready = FALSE, !.rx = <<>>]]
    /\ UNCHANGED notLoopVars

LoopInit ==
    /\ ParserConstructed
    /\ CacheConstructed
    /\ ManagerConstructed
    /\ RestConstructed

LoopNext ==
    \/ \E fd \in FDs : LoopAccept(fd)
    \/ \E fd \in FDs, symbol_ids \in Requests : PeerSubscribes(fd, symbol_ids)
    \/ \E fd \in FDs : PeerShutsDown(fd)
    \/ \E fd \in FDs : PeerCloses(fd)
    \/ \E fd \in FDs : PeerResets(fd)
    \/ \E fd \in FDs : LoopEvent(fd)
    \/ \E order \in Orders(DOMAIN clients_) : LoopHeartbeat(order)

\* the loop keeps turning: every descriptor in the ready list is reported,
\* and heartbeats keep being sent
SpecLoop ==
    /\ LoopInit
    /\ [][LoopNext]_vars
    /\ \A fd \in FDs : WF_vars(LoopEvent(fd))
    /\ WF_vars(\E order \in Orders(DOMAIN clients_) : LoopHeartbeat(order))

\* the connection has an entry
Attached(port) ==
    \E fd \in DOMAIN clients_ : clients_[fd].port = port

\* the connection's socket has met the end of the stream or an error
PeerGone(port) ==
    \E fd \in FDs : open_fds[fd] = port /\ (sock[fd].fin \/ sock[fd].err)

\* C12: once the peer of a connection has closed its sending side (EOF) or
\* the socket has an error, the publisher's loop eventually detaches the
\* connection's entry, however the requests and the FIN fall between the
\* calls of epoll_wait.
ClosedPeerDetached ==
    \A port \in 1..MaxConns : PeerGone(port) ~> ~ Attached(port)

-----------------------------------------------------------------------------
(* MarketDataSocket (connect, reconnect, send_subscription) and             *)
(* FeedHandler::run: the consumer's connection                              *)

SUBSCRIBE_CMD == 255
MAX_RETRY_COUNT == 5
MaxBackoffMs == 30000

\* data chunks the peer delivers on one connection
MaxChunks == 2

\* the configurations main() can hand to configure()
Configs == [subscribe_symbols : {<<>>, <<1>>, <<0, 300>>}, auto_reconnect : BOOLEAN]

\* memcpy of each uint16_t of the list
RECURSIVE IdsLE(_)
IdsLE(symbol_ids) ==
    IF symbol_ids = <<>> THEN <<>>
    ELSE LE(symbol_ids[1], 2) \o IdsLE(Tail(symbol_ids))

\* the message send_subscription builds: command, count, identifiers
SubscriptionMessage(symbol_ids) ==
    <<SUBSCRIBE_CMD>> \o LE(Len(symbol_ids) % 65536, 2) \o IdsLE(symbol_ids)

\* a connection just established by connect() or by reconnect()
NewLink(via) == [via |-> via, sent |-> <<>>, chunks |-> 0, up |-> TRUE]

\* do_connect: the old descriptor is closed first; ok is whether resolving,
\* connecting and registering all succeed
do_connect(s, ok) == [s EXCEPT !.connected_ = ok, !.fd_open = ok]

connect(s, ok) ==
    do_connect([s EXCEPT !.reconnect_count_ = 0, !.current_backoff_ms_ = 100], ok)

disconnect(s) == [s EXCEPT !.connected_ = FALSE, !.fd_open = FALSE]

\* reconnect without the reset of the delay after a success
reconnect_keeps_delay(s, ok) ==
    IF s.reconnect_count_ >= MAX_RETRY_COUNT
    THEN [sk |-> s, slept |-> <<>>, result |-> FALSE]
    ELSE [sk |-> do_connect([s EXCEPT
                    !.current_backoff_ms_ = Min(s.current_backoff_ms_ * 2, MaxBackoffMs),
                    !.reconnect_count_ = @ + 1], ok),
          slept |-> <<s.current_backoff_ms_>>,
          result |-> ok]

\* reconnect without the limit on the attempts
reconnect_unlimited(s, ok) ==
    LET c == do_connect([s EXCEPT
                !.current_backoff_ms_ = Min(s.current_backoff_ms_ * 2, MaxBackoffMs),
                !.reconnect_count_ = @ + 1], ok)
    IN  [sk |-> IF ok THEN [c EXCEPT !.current_backoff_ms_ = 100] ELSE c,
         slept |-> <<s.current_backoff_ms_>>,
         result |-> ok]

\* reconnect that starts the count of attempts again after a success
reconnect_resets_count(s, ok) ==
    IF s.reconnect_count_ >= MAX_RETRY_COUNT
    THEN [sk |-> s, slept |-> <<>>, result |-> FALSE]
    ELSE LET c == do_connect([s EXCEPT
                      !.current_backoff_ms_ = Min(s.current_backoff_ms_ * 2, MaxBackoffMs),
                      !.reconnect_count_ = @ + 1], ok)
         IN  [sk |-> IF ok THEN [c EXCEPT !.current_backoff_ms_ = 100,
                                          !.reconnect_count_ = 0]
                     ELSE c,
              slept |-> <<s.current_backoff_ms_>>,
              result |-> ok]

\* reconnect: the socket after it, the delay slept (none when the attempts
\* are used up) and the result
reconnect(s, ok) ==
    IF s.reconnect_count_ >= MAX_RETRY_COUNT
    THEN [sk |-> s, slept |-> <<>>, result |-> FALSE]
    ELSE LET c == do_connect([s EXCEPT
                      !.current_backoff_ms_ = Min(s.current_backoff_ms_ * 2, MaxBackoffMs),
                      !.reconnect_count_ = @ + 1], ok)
         IN  [sk |-> IF ok THEN [c EXCEPT !.current_backoff_ms_ = 100] ELSE c,
              slept |-> <<s.current_backoff_ms_>>,
              result |-> ok]

\* send_subscription on connection l.  The message is far smaller than the
\* send buffer of a connection that has carried nothing yet, so send takes
\* it whole unless the connection has failed (sendok false).
send_subscription(s, l, symbol_ids, sendok) ==
    IF ~ s.connected_ \/ ~ s.fd_open THEN [link |-> l, result |-> FALSE]
    ELSE IF sendok /\ l.up
    THEN [link |-> [l EXCEPT !.sent = Append(@, SubscriptionMessage(symbol_ids))],
          result |-> TRUE]
    ELSE [link |-> [l EXCEPT !.up = FALSE], result |-> FALSE]

\* FeedHandler::start
start(ok, sendok) ==
    LET s == connect(sk, ok)
        l == IF ok THEN NewLink("connect") ELSE NoLink
        sub == send_subscription(s, l, config_.subscribe_symbols, sendok)
    IN  IF ~ ok THEN [sk |-> s, link |-> l, result |-> FALSE]
        ELSE IF config_.subscribe_symbols # <<>>
        THEN [sk |-> s, link |-> sub.link, result |-> sub.result]
        ELSE [sk |-> s, link |-> l, result |-> TRUE]

\* what wait_for_data can return on a connected socket: nothing within the
\* timeout, readable, EPOLLERR | EPOLLHUP, or epoll_wait itself failing
Waits == {"timeout", "data", "hup", "fail"}

\* how the receive loop of process_data ends: would-block, or end of stream
\* or a receive error
Ends == {"again", "lost"}

\* the branch of run() for wait_for_data < 0, without the subscription replay
Recover_silent(s, ok, sendok) ==
    IF config_.auto_reconnect
    THEN LET r == reconnect(s, ok)
             l == IF r.slept = <<>> THEN link
                  ELSE IF ok THEN NewLink("reconnect") ELSE NoLink
         IN  IF r.result
             THEN [sk |-> r.sk, link |-> l, slept |-> r.slept, ok |-> TRUE,
                   stop |-> FALSE]
             ELSE [sk |-> r.sk, link |-> l, slept |-> r.slept, ok |-> FALSE,
                   stop |-> r.sk.reconnect_count_ >= MAX_RETRY_COUNT]
    ELSE [sk |-> s, link |-> link, slept |-> <<>>, ok |-> FALSE, stop |-> TRUE]

\* the branch of run() for wait_for_data < 0: reconnect and replay the
\* subscription, or stop
Recover(s, ok, sendok) ==
    IF config_.auto_reconnect
    THEN LET r == reconnect(s, ok)
             l == IF r.slept = <<>> THEN link
                  ELSE IF ok THEN NewLink("reconnect") ELSE NoLink
         IN  IF r.result
             THEN [sk |-> r.sk,
                   link |-> IF config_.subscribe_symbols # <<>>
                            THEN send_subscription(r.sk, l, config_.subscribe_symbols,
                                                   sendok).link
                            ELSE l,
                   slept |-> r.slept, ok |-> TRUE, stop |-> FALSE]
             ELSE [sk |-> r.sk, link |-> l, slept |-> r.slept, ok |-> FALSE,
                   stop |-> r.sk.reconnect_count_ >= MAX_RETRY_COUNT]
    ELSE [sk |-> s, link |-> link, slept |-> <<>>, ok |-> FALSE, stop |-> TRUE]

\* main() calls run(): start(), and the loop is entered when it succeeds
RunBegin(ok, sendok) ==
    /\ fh.at = "main"
    /\ LET r == start(ok, sendok)
       IN  /\ sk' = r.sk
           /\ link' = r.link
           /\ fh' = [fh EXCEPT !.running_ = r.result,
                               !.at = IF r.result THEN "loop" ELSE "returned"]
    /\ naps' = <<>>
    /\ UNCHANGED <<config_, notRunVars>>

\* one pass of the loop of run(): the loop test, wait_for_data, and the
\* branch taken on its result.  d chunks are received by process_data before
\* its loop ends with e.
RunPass(w, d, e, ok, sendok) ==
    /\ fh.at = "loop"
    /\ IF ~ fh.running_ /\ ~ fh.in_wait
       THEN /\ fh' = [fh EXCEPT !.at = "returned"]
            /\ UNCHANGED <<sk, link, naps>>
       ELSE LET \* wait_for_data, and the socket after it
                result == IF fh.in_wait \/ ~ sk.connected_ \/ ~ sk.fd_open THEN "fail"
                          ELSE IF ~ link.up THEN "hup"
                          ELSE w
                s == IF result = "hup" THEN [sk EXCEPT !.connected_ = FALSE] ELSE sk
                rec == Recover(s, ok, sendok)
            IN  IF result \in {"hup", "fail"}
                THEN /\ sk' = IF rec.stop THEN disconnect(rec.sk) ELSE rec.sk
                     /\ link' = IF rec.stop THEN NoLink ELSE rec.link
                     /\ naps' = IF rec.slept = <<>> THEN naps
                                ELSE Append(naps, [delay |-> rec.slept[1], ok |-> rec.ok])
                     /\ fh' = [fh EXCEPT
                                 !.in_wait = FALSE,
                                 !.running_ = IF rec.stop THEN FALSE ELSE @,
                                 !.at = IF rec.stop THEN "returned" ELSE @]
                ELSE IF result = "data"
                THEN /\ link.chunks + d <= MaxChunks
                     /\ sk' = IF e = "lost" THEN [sk EXCEPT !.connected_ = FALSE] ELSE sk
                     /\ link' = [link EXCEPT !.chunks = @ + d]
                     /\ UNCHANGED <<fh, naps>>
                ELSE UNCHANGED <<sk, fh, link, naps>>
    /\ UNCHANGED <<config_, notRunVars>>

\* SIGINT or SIGTERM while run() is in its loop: the handler calls stop().
\* mid: the signal interrupts epoll_wait inside wait_for_data, which then
\* fails; otherwise the thread is between two passes.
Signal(mid) ==
    /\ fh.at = "loop"
    /\ fh.running_
    /\ sk' = disconnect(sk)
    /\ link' = NoLink
    /\ fh' = [fh EXCEPT !.running_ = FALSE, !.in_wait = mid]
    /\ UNCHANGED <<config_, naps, notRunVars>>

\* the peer or the network breaks the connection
LinkBreaks ==
    /\ link.up
    /\ link' = [link EXCEPT !.up = FALSE]
    /\ UNCHANGED <<config_, sk, fh, naps, notRunVars>>

RunInit ==
    /\ ParserConstructed
    /\ CacheConstructed
    /\ ManagerConstructed
    /\ LoopConstructed
    /\ StreamConstructed
    /\ config_ \in Configs
    /\ sk = [connected_ |-> FALSE, fd_open |-> FALSE,
             reconnect_count_ |-> 0, current_backoff_ms_ |-> 100]
    /\ fh = [running_ |-> FALSE, at |-> "main", in_wait |-> FALSE]
    /\ link = NoLink
    /\ naps = <<>>
    /\ QuietConstructed /\ TrackerConstructed /\ PoolConstructed
    /\ SocketConstructed

RunNext ==
    \/ \E ok \in BOOLEAN, sendok \in BOOLEAN : RunBegin(ok, sendok)
    \/ \E w \in Waits, d \in 0..MaxChunks, e \in Ends, ok \in BOOLEAN, sendok \in BOOLEAN :
           RunPass(w, d, e, ok, sendok)
    \/ \E mid \in BOOLEAN : Signal(mid)
    \/ LinkBreaks

\* the thread of run() keeps running
SpecRun ==
    /\ RunInit
    /\ [][RunNext]_vars
    /\ WF_vars(\E w \in Waits, d \in 0..MaxChunks, e \in Ends, ok \in BOOLEAN,
                  sendok \in BOOLEAN : RunPass(w, d, e, ok, sendok))

\* C13: the delays slept before the reconnect attempts made since connect()
\* follow the backoff: 100 ms before the first attempt and before an attempt
\* that follows a successful one, twice the previous delay (at most 30 000 ms)
\* before an attempt that follows a failed one; and the delay kept for the
\* next attempt is the one this rule gives.
BackoffAfter(i) ==
    IF i = 0 \/ naps[i].ok THEN 100
    ELSE Min(2 * naps[i].delay, MaxBackoffMs)

DelaysFollowBackoff ==
    /\ \A i \in 1..Len(naps) :
           /\ naps[i].delay = BackoffAfter(i - 1)
           /\ naps[i].delay <= MaxBackoffMs
    /\ fh.at # "main" => sk.current_backoff_ms_ = BackoffAfter(Len(naps))

\* two failed attempts, a successful one, and the attempt after it
BackoffDoubledAndReset ==
    /\ Len(naps) >= 4
    /\ ~ naps[1].ok /\ ~ naps[2].ok /\ naps[3].ok
    /\ naps[3].delay = 400
    /\ naps[4].delay = 100

\* C14: the consumer makes at most MAX_RETRY_COUNT reconnect attempts; once
\* the last of them has failed run() has stopped the handler and returned;
\* and a run loop whose socket is disconnected does not stay so for ever: the
\* socket is connected again or run() returns.
AttemptsBounded == Len(naps) <= MAX_RETRY_COUNT

LastFailureStops ==
    (Len(naps) = MAX_RETRY_COUNT /\ ~ naps[MAX_RETRY_COUNT].ok)
        => (fh.at = "returned" /\ ~ fh.running_ /\ ~ sk.connected_)

ConsumerGivesUp ==
    /\ [](AttemptsBounded /\ LastFailureStops)
    /\ (fh.at = "loop" /\ ~ sk.connected_) ~> (fh.at = "returned" \/ sk.connected_)

\* the fifth attempt has failed and run() has returned
FifthAttemptFailed ==
    /\ Len(naps) = MAX_RETRY_COUNT
    /\ \A i \in 1..MAX_RETRY_COUNT : ~ naps[i].ok
    /\ fh.at = "returned"

\* C15: on a connection made by a successful reconnect of a consumer
\* configured with a non-empty subscription list, the subscription message
\* carrying exactly that list has been sent, once, unless the connection had
\* already failed; in particular it has been sent before any data received
\* on that connection is processed.
CarriesList(msg, symbol_ids) ==
    /\ Len(msg) = 3 + 2 * Len(symbol_ids)
    /\ msg[1] = SUBSCRIBE_CMD
    /\ ReadLE(msg, 1, 2) = Len(symbol_ids)
    /\ \A i \in 1..Len(symbol_ids) : ReadLE(msg, 1 + 2 * i, 2) = symbol_ids[i]

Replayed ==
    /\ Len(link.sent) = 1
    /\ CarriesList(link.sent[1], config_.subscribe_symbols)

SubscriptionReplayed ==
    (link.via = "reconnect" /\ config_.subscribe_symbols # <<>>)
        => /\ link.up => Replayed
           /\ link.chunks > 0 => Replayed

\* data processed on a connection made by reconnect, two symbols subscribed
DataAfterReplay ==
    /\ link.via = "reconnect"
    /\ config_.subscribe_symbols = <<0, 300>>
    /\ link.chunks > 0
    /\ link.sent = <<SubscriptionMessage(<<0, 300>>)>>

-----------------------------------------------------------------------------
(* ExchangeSimulator: generate_and_broadcast_tick, send_heartbeat and the   *)
(* heartbeat timer of run(), TickGenerator's numbering, and one consumer    *)
(* (FeedHandler::process_data) at the other end of the first connection     *)

\* frames generated in the short streams
MaxGenerated == 3

\* calls of generate_and_broadcast_tick in the long streams
MaxCalls == 101

\* the period of the fault injection
SkipEvery == 100

\* a second, in the unit of the model's clock (500 ms)
Second == 2

\* the descriptor of the consumer: the first connection accepted gets the
\* lowest descriptor
ConsumerFd == CHOOSE fd \in FDs : \A g \in FDs : fd <= g

\* the bytes of data that a send with this outcome puts on the connection
Written(outcome, data) ==
    IF outcome = "full" THEN data
    ELSE IF outcome = "partial" THEN SubSeq(data, 1, Len(data) \div 2)
    ELSE <<>>

\* The kernel's answers for the descriptors in S in the streams.  The
\* connections stay up, so no send fails with a connection error.
StreamAnswers(S) ==
    LET up == {a \in Answers : a.pending = 0 /\ a.outcome # "error"}
    IN  {[fd \in FDs |-> IF fd \in S THEN f[fd] ELSE NoAnswer] : f \in [S -> up]}

\* every send goes through
AllFull == [fd \in FDs |-> [pending |-> 0, outcome |-> "full"]]

\* a generated frame in the log: to, the descriptors send_to_client sent it
\* to wholly; dropped, generated and thrown away
Made(kind, seq, to, dropped) ==
    [kind |-> kind, seq |-> seq, to |-> to, dropped |-> dropped]

\* what the frame data, sent with the outcomes sends, leaves on the
\* consumer's connection
Carry(kind, seq, data, sends) ==
    /\ wire' = wire \o Written(sends[ConsumerFd], data)
    /\ sent' = IF sends[ConsumerFd] = "full" THEN Append(sent, <<kind, seq>>) ELSE sent

\* a send_heartbeat that passes over the entries broadcast passes over: the
\* slow ones and those not subscribed to symbol 0
RECURSIVE send_heartbeat_subscribed(_, _, _, _, _)
send_heartbeat_subscribed(st, order, len, answers, slow_threshold_) ==
    IF order = <<>> THEN st
    ELSE LET fd == Head(order)
             c == st.clients_[fd]
             r == send_to_client(st.clients_, fd, len, answers[fd], slow_threshold_)
         IN  send_heartbeat_subscribed(
                 IF c.is_slow \/ (~ c.subscribe_all /\ 0 \notin c.subscribed_symbols)
                 THEN st
                 ELSE [clients_ |-> r.clients_,
                       ok |-> IF r.ok THEN st.ok \cup {fd} ELSE st.ok],
                 Tail(order), len, answers, slow_threshold_)

\* send_heartbeat: send_to_client for every descriptor of get_all_client_fds;
\* st = [clients_, ok], ok the descriptors send_to_client returned true for
RECURSIVE send_heartbeat(_, _, _, _, _)
send_heartbeat(st, order, len, answers, slow_threshold_) ==
    IF order = <<>> THEN st
    ELSE LET fd == Head(order)
             r == send_to_client(st.clients_, fd, len, answers[fd], slow_threshold_)
         IN  send_heartbeat([clients_ |-> r.clients_,
                             ok |-> IF r.ok THEN st.ok \cup {fd} ELSE st.ok],
                            Tail(order), len, answers, slow_threshold_)

\* generate_heartbeat that numbers the frame like the frame before it
generate_heartbeat_unnumbered(sequence_) ==
    [sequence_ |-> sequence_, data |-> EncodeFrame(HEARTBEAT, sequence_, 0, 0)]

\* generate_heartbeat: the counter after it and the frame
generate_heartbeat(sequence_) ==
    [sequence_ |-> Inc32(sequence_),
     data |-> EncodeFrame(HEARTBEAT, Inc32(sequence_), 0, 0)]

\* generate_tick_for_symbol, is_trade being its draw of the kind
generate_tick_for_symbol(sequence_, symbol_id, is_trade) ==
    [sequence_ |-> Inc32(sequence_),
     kind |-> IF is_trade THEN TRADE ELSE QUOTE,
     data |-> EncodeFrame(IF is_trade THEN TRADE ELSE QUOTE, Inc32(sequence_), 0,
                          symbol_id)]

\* generate_and_broadcast_tick without the fault injection
Skips_never(s) == FALSE

\* generate_and_broadcast_tick: whether this call generates a tick to throw
\* away first
Skips(s) == s.fault_injection_ /\ (s.fault_skip_counter_ + 1) % SkipEvery = 0

\* generate_and_broadcast_tick, called by run() while client_count() > 0.
\* generate_tick draws the symbol and, in generate_tick_for_symbol, the kind;
\* both number the frame ++sequence_.
StreamTick(is_trade, symbol_id, order, answers) ==
    /\ ~ destroyed
    /\ DOMAIN clients_ # {}
    /\ LET lost == generate_tick_for_symbol(sim.sequence_, symbol_id, is_trade).sequence_
           tick == generate_tick_for_symbol(IF Skips(sim) THEN lost ELSE sim.sequence_,
                                            symbol_id, is_trade)
           seq == tick.sequence_
           kind == tick.kind
           data == tick.data
           b == broadcast(clients_, order, Len(data), symbol_id, answers,
                          SLOW_CONSUMER_THRESHOLD)
           sends == SendsOf(b.called, answers, SLOW_CONSUMER_THRESHOLD)
       IN  /\ sim' = [sim EXCEPT
                        !.sequence_ = seq,
                        !.fault_skip_counter_ = IF sim.fault_injection_ THEN @ + 1 ELSE @]
           /\ made' = made
                      \o (IF Skips(sim) THEN <<Made(0, lost, {}, TRUE)>> ELSE <<>>)
                      \o <<Made(kind, seq, {fd \in b.called : sends[fd] = "full"}, FALSE)>>
           /\ clients_' = b.clients_
           /\ totals' = [messages |-> totals.messages + b.count,
                         bytes |-> totals.bytes + b.count * Len(data)]
           /\ evt' = Event("broadcast", 0, FALSE, 0, {}, NoSends, 0, 0, 0)
           /\ Carry(kind, seq, data, sends)
    /\ UNCHANGED <<parser, next_seq, crashed, last, open_fds, close_calls, destroyed,
                   accepted, send_calls, notStreamVars>>

\* The heartbeat timer of one pass of run(): dt is the time since the pass
\* before.  When a second or more has gone by since last_heartbeat,
\* send_heartbeat and last_heartbeat = now.
StreamPass(dt, order, answers) ==
    /\ ~ destroyed
    /\ LET elapsed == sim.since_heartbeat + dt
           beat == generate_heartbeat(sim.sequence_)
           seq == beat.sequence_
           data == beat.data
           h == send_heartbeat([clients_ |-> clients_, ok |-> {}], order,
                               HEARTBEAT_MSG_SIZE, answers, SLOW_CONSUMER_THRESHOLD)
           sends == SendsOf(DOMAIN clients_, answers, SLOW_CONSUMER_THRESHOLD)
       IN  IF elapsed >= Second
           THEN /\ sim' = [sim EXCEPT !.sequence_ = seq, !.since_heartbeat = 0]
                /\ made' = Append(made, Made(HEARTBEAT, seq, h.ok, FALSE))
                /\ clients_' = h.clients_
                /\ evt' = Event("heartbeat", 0, FALSE, 0, {}, NoSends, 0, 0, 0)
                /\ Carry(HEARTBEAT, seq, data, sends)
           ELSE /\ sim' = [sim EXCEPT !.since_heartbeat = elapsed]
                /\ evt' = Event("pass", 0, FALSE, 0, {}, NoSends, 0, 0, 0)
                /\ UNCHANGED <<made, clients_, wire, sent>>
    /\ UNCHANGED <<parser, next_seq, crashed, last, totals, open_fds, close_calls,
                   destroyed, accepted, send_calls, notStreamVars>>

\* main() has applied its options: fault injection on or off
StreamInit ==
    /\ ParserConstructed
    /\ CacheConstructed
    /\ ManagerConstructed
    /\ LoopConstructed
    /\ RunConstructed
    /\ sim \in [sequence_ : {Zero32}, fault_injection_ : BOOLEAN,
                fault_skip_counter_ : {0}, since_heartbeat : {0}]
    /\ made = <<>>
    /\ QuietConstructed /\ TrackerConstructed /\ PoolConstructed
    /\ SocketConstructed

\* the subscription request of the second subscriber arrives
OtherSubscribes ==
    \E fd \in DOMAIN clients_ \ {ConsumerFd}, symbol_ids \in Requests :
        /\ clients_[fd].subscribe_all
        /\ HandleClientEvent(fd, TRUE, FALSE, "subscribe", symbol_ids)

\* the consumer's process_data, recv returning a header's length or all
\* there is
StreamReceive == \E n \in {HEADER_SIZE, Len(wire)} : AppendThenParse(n)

\* the streams are followed up to the step that marks the consumer slow, and
\* a frame is generated when the consumer has read the one before
Followed ==
    /\ Len(made) < MaxGenerated
    /\ wire = <<>>
    /\ ConsumerFd \in DOMAIN clients_ => clients_[ConsumerFd].slow_consumer_count = 0

StreamNext ==
    \/ \E fd \in FDs : HandleNewConnection(fd)
    \/ OtherSubscribes
    \/ /\ Followed
       /\ \E is_trade \in BOOLEAN, symbol_id \in Symbols, order \in Orders(DOMAIN clients_) :
          \E answers \in StreamAnswers(Asked(QUOTE_MSG_SIZE, symbol_id, order)) :
              StreamTick(is_trade, symbol_id, order, answers)
    \/ /\ Followed
       /\ \E dt \in 0..Second, order \in Orders(DOMAIN clients_) :
          \E answers \in StreamAnswers(DOMAIN clients_) :
              StreamPass(dt, order, answers)
    \/ StreamReceive

SpecStream == StreamInit /\ [][StreamNext]_vars

\* C16: with fault injection off, a consumer attached and subscribed to all
\* symbols whose entry was never marked slow has been sent, wholly and in the
\* order of generation, every frame generated from the first one it was
\* sent; its parser has delivered exactly those received completely so far
\* (all of them once the connection is drained), and has counted no sequence
\* gap, no checksum error and no malformed message.
NeverSlow ==
    /\ ConsumerFd \in DOMAIN clients_
    /\ clients_[ConsumerFd].subscribe_all
    /\ clients_[ConsumerFd].slow_consumer_count = 0

FirstSent ==
    IF \E i \in 1..Len(made) : ConsumerFd \in made[i].to
    THEN CHOOSE i \in 1..Len(made) :
            /\ ConsumerFd \in made[i].to
            /\ \A j \in 1..(i - 1) : ConsumerFd \notin made[j].to
    ELSE Len(made) + 1

MadeSince(i) == [j \in 1..(Len(made) + 1 - i) |-> <<made[i + j - 1].kind, made[i + j - 1].seq>>]

LastMade == made[Len(made)]

FaultInit ==
    /\ ParserConstructed
    /\ CacheConstructed
    /\ ManagerConstructed
    /\ LoopConstructed
    /\ RunConstructed
    /\ sim = [sequence_ |-> Zero32, fault_injection_ |-> TRUE,
              fault_skip_counter_ |-> 0, since_heartbeat |-> 0]
    /\ made = <<>>
    /\ QuietConstructed /\ TrackerConstructed /\ PoolConstructed
    /\ SocketConstructed

\* The long streams: quotes only, every send going through, and the consumer
\* reading each frame before the next is generated.
FaultNext ==
    \/ \E fd \in FDs : HandleNewConnection(fd)
    \/ /\ sim.fault_skip_counter_ < MaxCalls
       /\ wire = <<>>
       /\ \E symbol_id \in Symbols, order \in Orders(DOMAIN clients_) :
              StreamTick(FALSE, symbol_id, order, AllFull)
    \/ AppendThenParse(Len(wire))

SpecFault == FaultInit /\ [][FaultNext]_vars

\* C17: with fault injection on, every call of generate_and_broadcast_tick
\* whose number is a multiple of 100, and no other, generates one extra tick
\* before the one it broadcasts and throws it away: it takes the next sequence
\* number, is sent to nobody, and the tick broadcast takes the number after
\* it.  A consumer subscribed to all symbols and never marked slow that was
\* receiving before is sent every tick broadcast, reports one gap per tick
\* thrown away, from its number to the next, and is delivered the frames
\* that follow.
Value32(w) == w[1] + 256 * w[2] + 65536 * w[3] + 16777216 * w[4]

Broadcast == SelectSeq(made, LAMBDA m : ~ m.dropped)

Dropped == SelectSeq(made, LAMBDA m : m.dropped)

-----------------------------------------------------------------------------
(* SymbolCache: the updates taken whole (one writer, no reader looking)     *)

\* prices in half ticks, 0 among them; the timestamps callers give
Prices == {0, 2, 4}
Timestamps == {7, 9}

\* entries_ (the model's MAX_SYMBOLS is 3) and the symbols of a cache
\* constructed with num_symbols = 2
Slots == {0, 1, 2}
TwoSymbols == {0, 1}

\* the range check without the test
InRange_any(symbol_id) == TRUE

\* symbol_id >= num_symbols_ returns at once
InRange(symbol_id) == symbol_id \in TwoSymbols

\* the stores of one update of the given kind; quantity is used for every
\* quantity it carries
StoresFor(kind, s, price, ask_price, quantity, timestamp) ==
    CASE kind = "update_quote" ->
             QuoteStores(s, price, quantity, ask_price, quantity, timestamp)
      [] kind = "update_trade" -> TradeStores(s, price, quantity, timestamp)
      [] kind = "update_bid"   -> BidStores(s, price, quantity, timestamp)
      [] kind = "update_ask"   -> AskStores(s, price, quantity, timestamp)

\* the state after the stores, made in order
RECURSIVE ApplyStores(_, _)
ApplyStores(s, stores) ==
    IF stores = <<>> THEN s
    ELSE ApplyStores([s EXCEPT ![stores[1][1]] = stores[1][2]], Tail(stores))

\* update_quote, update_trade, update_bid, update_ask from begin_write to
\* end_write; an id out of range returns at once
Update(kind, symbol_id, price, ask_price, quantity, timestamp) ==
    /\ writer.pc = "idle"
    /\ Len(applied) < MaxUpdates
    /\ IF ~ InRange(symbol_id)
       THEN UNCHANGED <<entries_, committed>>
       ELSE LET e == begin_write(entries_[symbol_id])
                s == ApplyStores(e.state, StoresFor(kind, e.state, price, ask_price,
                                                   quantity, timestamp))
            IN  /\ entries_' = [entries_ EXCEPT ![symbol_id] = end_write([e EXCEPT !.state = s])]
                /\ committed' = committed \cup {s}
    /\ applied' = Append(applied,
                         [kind |-> kind, symbol_id |-> symbol_id,
                          price |-> IF kind = "update_quote"
                                    THEN Midpoint(price, ask_price) ELSE price,
                          timestamp |-> timestamp])
    /\ out' = NoOut
    /\ UNCHANGED <<writer, readers, notCacheVars_applied>>

\* get_snapshot with no writer at work: the loop ends at its first pass
get_snapshot(symbol_id) ==
    IF ~ InRange(symbol_id) THEN ZeroState ELSE entries_[symbol_id].state

\* get_total_updates: the sum over i < num_symbols_
RECURSIVE SumOfCounts(_)
SumOfCounts(S) ==
    IF S = {} THEN 0
    ELSE LET i == CHOOSE i \in S : TRUE
         IN  get_snapshot(i).update_count + SumOfCounts(S \ {i})

get_total_updates == SumOfCounts({i \in Slots : InRange(i)})

\* std::greater on pair<uint64_t, uint16_t>
Greater(p, q) == p[1] > q[1] \/ (p[1] = q[1] /\ p[2] > q[2])

\* pairs in the order std::greater sorts them
RECURSIVE SortedGreater(_)
SortedGreater(P) ==
    IF P = {} THEN <<>>
    ELSE LET top == CHOOSE p \in P : \A q \in P \ {p} : Greater(p, q)
         IN  <<top>> \o SortedGreater(P \ {top})

\* get_top_symbols: out_ids and out_states, count slots each
get_top_symbols(count) ==
    LET symbols == {<<get_snapshot(i).update_count, i>> :
                       i \in {j \in Slots : InRange(j) /\ get_snapshot(j).update_count > 0}}
        sorted == SortedGreater(symbols)
        n == Min(count, Len(sorted))
    IN  [out_ids |-> [i \in 1..count |-> IF i <= n THEN sorted[i][2] ELSE 0],
         out_states |-> [i \in 1..count |->
                            IF i <= n THEN get_snapshot(sorted[i][2]) ELSE ZeroState]]

\* a reader asks while no update is in progress
Query ==
    /\ writer.pc = "idle"
    /\ \/ \E symbol_id \in Slots :
             out' = [op |-> "get_snapshot", arg |-> symbol_id,
                     value |-> get_snapshot(symbol_id)]
       \/ out' = [op |-> "get_total_updates", arg |-> 0, value |-> get_total_updates]
       \/ \E count \in 0..Cardinality(Slots) :
             out' = [op |-> "get_top_symbols", arg |-> count,
                     value |-> get_top_symbols(count)]
    /\ UNCHANGED <<cacheVars, applied, notCacheVars_applied>>

\* SymbolCache::reset
ResetCache ==
    /\ writer.pc = "idle"
    /\ applied # <<>>
    /\ entries_' = [s \in Slots |-> NewEntry]
    /\ committed' = {ZeroState}
    /\ applied' = <<>>
    /\ out' = NoOut
    /\ UNCHANGED <<writer, readers, notCacheVars_applied>>

\* SymbolCache(2)
UpdatesInit ==
    /\ entries_ = [s \in Slots |-> NewEntry]
    /\ writer = WriterIdle
    /\ readers = [r \in Readers |-> ReaderIdle]
    /\ committed = {ZeroState}
    /\ ParserConstructed
    /\ ManagerConstructed
    /\ RestConstructed

UpdatesNext ==
    \/ \E kind \in UpdateKinds, symbol_id \in Slots, price \in Prices,
          ask_price \in Prices, timestamp \in Timestamps :
           /\ kind # "update_quote" => ask_price = 0
           /\ Update(kind, symbol_id, price, ask_price, 1, timestamp)
    \/ Query
    \/ ResetCache

SpecUpdates == UpdatesInit /\ [][UpdatesNext]_vars

\* the updates applied to symbol s so far that carry a price for the opening
\* price: quotes (the midpoint) and trades (the price)
PricedFor(s) ==
    SelectSeq(applied, LAMBDA u : u.symbol_id = s /\ u.kind \in {"update_quote", "update_trade"})

\* C19: for each symbol, opening_price is the price carried by the first
\* quote or trade applied since reset (the midpoint of a quote, the price of
\* a trade), whatever updates came after it and whatever the prices are; it
\* is unset while there has been none.
OpeningPriceIsFirstPrice ==
    \A s \in TwoSymbols :
        entries_[s].state.opening_price =
            IF PricedFor(s) = <<>> THEN 0 ELSE PricedFor(s)[1].price

\* C20: after any of the four updates applied to a symbol in range whose
\* opening_price was unset, opening_price is set, to the price the update
\* carried; update_count has gone up by one and last_update_time is the
\* timestamp given.
UpdatesOf(s) == SelectSeq(applied, LAMBDA u : u.symbol_id = s)

EveryUpdateOpens ==
    \A s \in TwoSymbols :
        UpdatesOf(s) # <<>> =>
            LET u == UpdatesOf(s)[Len(UpdatesOf(s))] IN
            /\ (Len(UpdatesOf(s)) = 1 /\ u.price # 0)
                   => entries_[s].state.opening_price = u.price
            /\ entries_[s].state.update_count = Len(UpdatesOf(s))
            /\ entries_[s].state.last_update_time = u.timestamp


\* the in-range updates applied so far
InRangeApplied == SelectSeq(applied, LAMBDA u : u.symbol_id \in TwoSymbols)

\* C21: the update_count of each symbol is the number of in-range updates
\* applied to that symbol since construction or the last reset (each raises
\* it by exactly 1, and nothing else does), and get_total_updates called
\* with no update in progress returns the number of in-range updates applied
\* since then.
UpdateCountsExact ==
    /\ \A s \in Slots :
           entries_[s].state.update_count =
               IF s \in TwoSymbols THEN Len(UpdatesOf(s)) ELSE 0
    /\ out.op = "get_total_updates" => out.value = Len(InRangeApplied)

\* one update of each symbol, then get_total_updates
TotalOfTwoSymbols ==
    /\ out.op = "get_total_updates"
    /\ out.value = 2
    /\ entries_[0].state.update_count = 1
    /\ entries_[1].state.update_count = 1
    /\ \E i \in 1..Len(applied) : applied[i].kind = "update_bid"

\* C22: an update_* call with symbol_id >= num_symbols leaves the state and
\* the sequence counter of every entry as they were, and get_snapshot of
\* such an id returns the all-zero MarketState.
OutOfRangeIgnored ==
    /\ [](out.op = "get_snapshot" /\ out.arg \notin TwoSymbols => out.value = ZeroState)
    /\ [][(/\ Len(applied') = Len(applied) + 1
           /\ applied'[Len(applied')].symbol_id \notin TwoSymbols)
              => entries_' = entries_]_vars

\* an update of symbol 0, an update with an id out of range, then
\* get_snapshot of that id
OutOfRangeAsked ==
    /\ Len(applied) = 2
    /\ applied[1].symbol_id = 0
    /\ applied[2].symbol_id = 2
    /\ applied[2].price # 0
    /\ out.op = "get_snapshot"
    /\ out.arg = 2

\* the order the ranking is to have: higher update_count first, and among
\* equal counts the lower symbol_id first
RECURSIVE ByCountThenId(_)
ByCountThenId(P) ==
    IF P = {} THEN <<>>
    ELSE LET top == CHOOSE p \in P :
                       \A q \in P \ {p} : p[1] > q[1] \/ (p[1] = q[1] /\ p[2] < q[2])
         IN  <<top>> \o ByCountThenId(P \ {top})

\* C23: get_top_symbols(out_ids, out_states, k) puts in the first slots the
\* symbols with the highest update_count (of those that have been updated),
\* in descending order of update_count, the lower symbol_id first among
\* equal counts, each with its state.
TopSymbolsByCountThenId ==
    out.op = "get_top_symbols" =>
        LET ranked == ByCountThenId({<<entries_[s].state.update_count, s>> :
                          s \in {t \in TwoSymbols : entries_[t].state.update_count > 0}})
        IN  \A i \in 1..Min(out.arg, Len(ranked)) :
                /\ out.value.out_ids[i] = ranked[i][2]
                /\ out.value.out_states[i] = entries_[ranked[i][2]].state


-----------------------------------------------------------------------------
(* SymbolCache: the sequence counter, with the writer's stores taken one    *)
(* by one                                                                   *)

\* the writer is between begin_write and end_write of symbol s
Writing(s) == writer.pc = "writing" /\ writer.symbol_id = s

\* the updates of symbol s that have completed: update_count, less the one
\* in progress once its store to update_count is made
Completed(s) ==
    IF Writing(s) /\ \A i \in 1..Len(writer.todo) : writer.todo[i][1] # "update_count"
    THEN entries_[s].state.update_count - 1
    ELSE entries_[s].state.update_count

\* C29: the sequence counter of every entry is odd exactly while an update
\* of that entry is between begin_write and end_write and even otherwise; it
\* is twice the number of completed updates (plus one during a write), so
\* each completed update raises it by exactly 2; and no step decreases it.
SequenceCountsWrites ==
    /\ [](\A s \in CachedSymbols :
              /\ entries_[s].sequence % 2 = 1 <=> Writing(s)
              /\ entries_[s].sequence = 2 * Completed(s) + (IF Writing(s) THEN 1 ELSE 0))
    /\ [][\A s \in CachedSymbols : entries_'[s].sequence >= entries_[s].sequence]_vars

\* the second update is in progress, its stores half made
SecondWriteInProgress ==
    /\ Writing(0)
    /\ entries_[0].sequence = 3
    /\ writer.todo # <<>>
    /\ entries_[0].state.update_count = 2


-----------------------------------------------------------------------------
(* ExchangeSimulator::process_subscription on the bytes recv returns: the   *)
(* peers write subscription messages, the kernel hands them over in pieces  *)

\* subscription messages a peer writes on one connection
MaxWritten == 2

\* sizeof(buffer) in process_subscription
RecvSize == 1024

\* the lists of symbols the peers subscribe to; 255 has the command byte as
\* its low byte
SubscriptionLists == {<<>>, <<1>>, <<1, 255>>}

\* the identifiers of the message in buffer
SymbolsIn(buffer, count) == {ReadLE(buffer, 3 + (i - 1) * 2, 2) : i \in 1..count}

\* process_subscription that takes the identifiers that have arrived
process_subscription_short(cs, fd, buffer) ==
    IF buffer[1] = SUBSCRIBE_CMD /\ Len(buffer) >= 3
    THEN handle_subscription(cs, fd,
             SymbolsIn(buffer, Min(ReadLE(buffer, 1, 2), (Len(buffer) - 3) \div 2)))
    ELSE cs

\* process_subscription after recv has returned n = Len(buffer) > 0 bytes:
\* the entries after it
process_subscription(cs, fd, buffer) ==
    IF buffer[1] = SUBSCRIBE_CMD /\ Len(buffer) >= 3
    THEN LET count == ReadLE(buffer, 1, 2) IN
         IF Len(buffer) >= 3 + count * 2
         THEN handle_subscription(cs, fd, SymbolsIn(buffer, count))
         ELSE cs
    ELSE cs

\* the peer of fd writes a subscription message
PeerWrites(fd, symbol_ids) ==
    /\ open_fds[fd] # 0
    /\ sock[fd].peer = "open"
    /\ sock[fd].written < MaxWritten
    /\ sock' = [sock EXCEPT ![fd].rx = @ \o SubscriptionMessage(symbol_ids),
                            ![fd].written = @ + 1,
                            ![fd].ready = TRUE]
    /\ UNCHANGED <<cmVars, notLoopVars>>

\* handle_client_event(fd, is_read, no error) when bytes wait: recv returns
\* the first n of them (at most RecvSize), process_subscription looks at
\* those and nothing keeps them
SubscriptionRead(fd, n) ==
    /\ ~ destroyed
    /\ open_fds[fd] # 0
    /\ sock[fd].ready
    /\ n \in 1..Min(Len(sock[fd].rx), RecvSize)
    /\ LET buffer == SubSeq(sock[fd].rx, 1, n)
           cs == process_subscription(clients_, fd, buffer)
           handled == /\ buffer[1] = SUBSCRIBE_CMD
                      /\ n >= 3
                      /\ n >= 3 + ReadLE(buffer, 1, 2) * 2
       IN  /\ clients_' = cs
           /\ evt' = IF handled
                     THEN Event("subscribe", fd, fd \in DOMAIN clients_, 0, {}, NoSends,
                                0, 0, 0)
                     ELSE evt
           /\ out' = [op |-> "recv", arg |-> fd, value |-> buffer]
           /\ sock' = [sock EXCEPT ![fd].rx = SubSeq(@, n + 1, Len(@)),
                                   ![fd].ready = (n < Len(sock[fd].rx))]
    /\ UNCHANGED <<totals, open_fds, close_calls, destroyed, accepted, send_calls>>
    /\ UNCHANGED <<parserVars, cacheVars, runVars, streamVars, applied, trackVars, poolVars,
                   sockVars>>

SubscribeInit ==
    /\ ParserConstructed
    /\ CacheConstructed
    /\ ManagerConstructed
    /\ RestConstructed

SubscribeNext ==
    \/ \E fd \in FDs : LoopAccept(fd)
    \/ \E fd \in FDs, symbol_ids \in SubscriptionLists : PeerWrites(fd, symbol_ids)
    \/ \E fd \in FDs : \E n \in 1..Len(sock[fd].rx) : SubscriptionRead(fd, n)

SpecSubscribe == SubscribeInit /\ [][SubscribeNext]_vars

\* what the entry of fd is subscribed to
SubscriptionOf(cs, fd) ==
    [all |-> cs[fd].subscribe_all, ids |-> cs[fd].subscribed_symbols]

\* the bytes read begin with a complete subscription frame: 0xFF, count,
\* count identifiers
CompleteFrame(b) ==
    /\ Len(b) >= 3
    /\ b[1] = 255
    /\ Len(b) >= 3 + 2 * (b[2] + 256 * b[3])

\* the subscription that frame asks for
AskedBy(b) ==
    [all |-> b[2] + 256 * b[3] = 0,
     ids |-> {b[2 + 2 * i] + 256 * b[3 + 2 * i] : i \in 1..(b[2] + 256 * b[3])}]

\* the bytes this step has taken off the socket of fd
TakenFrom(fd) ==
    IF Len(sock'[fd].rx) < Len(sock[fd].rx)
    THEN SubSeq(sock[fd].rx, 1, Len(sock[fd].rx) - Len(sock'[fd].rx))
    ELSE <<>>

\* C30: the subscription of an entry changes only in a read whose bytes
\* begin with a complete subscription frame (0xFF, count, count ids); after
\* such a read it is exactly the ids of that frame, whatever it was before
\* (all symbols when count is 0); a read of fewer than 3 + 2 * count bytes
\* leaves it as it was, and the bytes are gone from the socket.
SubscriptionByWholeFrame ==
    [][\A fd \in DOMAIN clients_ \cap DOMAIN clients_' :
          /\ SubscriptionOf(clients_', fd) # SubscriptionOf(clients_, fd)
                => CompleteFrame(TakenFrom(fd))
          /\ CompleteFrame(TakenFrom(fd))
                => SubscriptionOf(clients_', fd) = AskedBy(TakenFrom(fd))
          /\ (TakenFrom(fd) # <<>> /\ ~ CompleteFrame(TakenFrom(fd)))
                => /\ SubscriptionOf(clients_', fd) = SubscriptionOf(clients_, fd)
                   /\ sock'[fd].rx = SubSeq(sock[fd].rx, Len(TakenFrom(fd)) + 1,
                                            Len(sock[fd].rx))]_vars

\* an entry subscribed to symbol 1 by a whole frame has had the first bytes
\* of a frame for two symbols read and dropped
PartialFrameDropped ==
    \E fd \in DOMAIN clients_ :
        /\ out = [op |-> "recv", arg |-> fd, value |-> <<255, 2, 0, 1, 0>>]
        /\ SubscriptionOf(clients_, fd) = [all |-> FALSE, ids |-> {1}]
        /\ sock[fd].rx = <<255, 0>>


-----------------------------------------------------------------------------
(* LatencyTracker: record, get_stats, percentile_from_histogram, reset      *)

\* RING_BUFFER_SIZE
RING_BUFFER_SIZE == 1048576

\* calls of record
MaxSamples == 4

\* the latencies recorded: in bucket 0 below its midpoint, in bucket 1 at its
\* midpoint, beyond the histogram
Latencies == {10, 1500, 2000000}

\* element i of an array of which f holds the elements written
At(f, i) == IF i \in DOMAIN f THEN f[i] ELSE 0

\* the array after element i is set to v
Store(f, i, v) == [j \in DOMAIN f \cup {i} |-> IF j = i THEN v ELSE f[j]]

\* the histogram part of record
Counted(tr, latency_ns) ==
    IF latency_ns < MAX_TRACKED_NS
    THEN [tr EXCEPT !.histogram_ =
             Store(@, latency_ns \div BUCKET_WIDTH_NS, At(@, latency_ns \div BUCKET_WIDTH_NS) + 1)]
    ELSE [tr EXCEPT !.overflow_count_ = @ + 1]

\* record(latency_ns) run by one thread with no other at work
record(tr, latency_ns) ==
    LET c == Counted([tr EXCEPT !.sample_count_ = @ + 1,
                                !.sum_ = @ + latency_ns,
                                !.min_ = IF latency_ns < @ THEN latency_ns ELSE @,
                                !.max_ = IF latency_ns > @ THEN latency_ns ELSE @],
                     latency_ns)
    IN  [c EXCEPT !.write_index_ = @ + 1,
                  !.ring_buffer_ = Store(@, tr.write_index_ % RING_BUFFER_SIZE, latency_ns)]

\* cumulative after the loop of percentile_from_histogram has added
\* histogram_[0] .. histogram_[i]
RECURSIVE SumOver(_, _)
SumOver(f, S) ==
    IF S = {} THEN 0
    ELSE LET j == CHOOSE j \in S : TRUE IN f[j] + SumOver(f, S \ {j})

Cumulative(tr, i) == SumOver(tr.histogram_, {j \in DOMAIN tr.histogram_ : j <= i})

\* the loop of percentile_from_histogram: it returns at the first bucket
\* whose cumulative count is at least target, and falls through to max_
\* when there is none
ScanBuckets(tr, target) ==
    IF \E i \in 0..(NUM_BUCKETS - 1) : Cumulative(tr, i) >= target
    THEN LET first == CHOOSE i \in 0..(NUM_BUCKETS - 1) :
                         /\ Cumulative(tr, i) >= target
                         /\ i = 0 \/ Cumulative(tr, i - 1) < target
         IN  first * BUCKET_WIDTH_NS + BUCKET_WIDTH_NS \div 2
    ELSE tr.max_

\* percentile_from_histogram; the percentile in tenths of a percent.  The
\* product (percentile / 100.0) * total is far from an integer for the
\* totals followed here, except where it is exact, so the conversion to
\* uint64_t is the floor of the exact product.
percentile_from_histogram(tr, permille) ==
    IF tr.sample_count_ = 0 THEN 0
    ELSE ScanBuckets(tr, (permille * tr.sample_count_) \div 1000)

\* LatencyStats{}
NoStats ==
    [min |-> UINT64_MAX, max |-> 0, mean |-> 0, p50 |-> 0, p95 |-> 0, p99 |-> 0,
     p999 |-> 0, sample_count |-> 0]

get_stats(tr) ==
    IF tr.sample_count_ = 0 THEN [NoStats EXCEPT !.min = 0]
    ELSE [min |-> tr.min_, max |-> tr.max_, mean |-> tr.sum_ \div tr.sample_count_,
          p50 |-> percentile_from_histogram(tr, 500),
          p95 |-> percentile_from_histogram(tr, 950),
          p99 |-> percentile_from_histogram(tr, 990),
          p999 |-> percentile_from_histogram(tr, 999),
          sample_count |-> tr.sample_count_]

\* no thread is inside record
Quiet == \A t \in Recorders : recorders[t].pc = "idle"

\* one thread records
Record(latency_ns) ==
    /\ Quiet
    /\ Len(samples) < MaxSamples
    /\ tracker' = record(tracker, latency_ns)
    /\ samples' = Append(samples, latency_ns)
    /\ out' = NoOut
    /\ UNCHANGED <<recorders, notTrackVars>>

GetStats ==
    /\ Quiet
    /\ out' = [op |-> "get_stats", arg |-> 0, value |-> get_stats(tracker)]
    /\ UNCHANGED <<trackVars, notTrackVars>>

\* LatencyTracker::reset
ResetTracker ==
    /\ Quiet
    /\ samples # <<>>
    /\ tracker' = NewTracker
    /\ samples' = <<>>
    /\ out' = NoOut
    /\ UNCHANGED <<recorders, notTrackVars>>

TrackerInit ==
    /\ ParserConstructed
    /\ CacheConstructed
    /\ ManagerConstructed
    /\ RestConstructed

TrackerNext ==
    \/ \E latency_ns \in Latencies : Record(latency_ns)
    \/ GetStats
    \/ ResetTracker

SpecTracker == TrackerInit /\ [][TrackerNext]_vars

\* C24: get_stats after at least one sample returns
\* p50 <= p95 <= p99 <= p999 <= max and min <= mean <= max.
StatsOrdered ==
    (out.op = "get_stats" /\ out.value.sample_count >= 1) =>
        /\ out.value.p50 <= out.value.p95
        /\ out.value.p95 <= out.value.p99
        /\ out.value.p99 <= out.value.p999
        /\ out.value.p999 <= out.value.max
        /\ out.value.min <= out.value.mean
        /\ out.value.mean <= out.value.max

\* the k-th smallest of the samples recorded
Smallest(k) ==
    CHOOSE v \in {samples[i] : i \in 1..Len(samples)} :
        /\ Cardinality({i \in 1..Len(samples) : samples[i] < v}) < k
        /\ Cardinality({i \in 1..Len(samples) : samples[i] <= v}) >= k

\* ceil(p * n) for p in tenths of a percent
Rank(permille, n) == (permille * n + 999) \div 1000

\* the midpoint of the first bucket at which the cumulative count reaches
\* ceil(p * n): the bucket of the sample of that rank; the observed max when
\* that sample is in the overflow bucket
PercentileOf(permille) ==
    LET v == Smallest(Rank(permille, Len(samples)))
    IN  IF v < 1000000 THEN (v \div 1000) * 1000 + 500
        ELSE Smallest(Len(samples))

\* C25: with n >= 1 samples recorded, the percentiles get_stats takes from
\* percentile_from_histogram are each the midpoint of the first bucket, in
\* ascending order, at which the cumulative count reaches ceil(p * n), and
\* the observed max when only the overflow bucket brings the count there.
PercentileAtCeiling ==
    (out.op = "get_stats" /\ Len(samples) >= 1) =>
        /\ out.value.p50 = PercentileOf(500)
        /\ out.value.p95 = PercentileOf(950)
        /\ out.value.p99 = PercentileOf(990)
        /\ out.value.p999 = PercentileOf(999)


-----------------------------------------------------------------------------
(* LatencyTracker::record called by several threads: every atomic           *)
(* operation is a step                                                      *)

\* calls of record by all threads together
MaxRecorded == 3

\* a compare-exchange that stores without comparing
compare_exchange_blind(cell, expected, desired) ==
    [ok |-> TRUE, cell |-> desired, expected |-> expected]

\* compare_exchange_weak(expected, desired) on an atomic holding cell: the
\* value it holds after, and expected after.  A spurious failure leaves
\* everything as it was, the loop tries again.
compare_exchange(cell, expected, desired) ==
    IF cell = expected
    THEN [ok |-> TRUE, cell |-> desired, expected |-> expected]
    ELSE [ok |-> FALSE, cell |-> cell, expected |-> cell]

\* sample_count_.fetch_add(1)
RecordCount(t, latency_ns) ==
    /\ recorders[t].pc = "idle"
    /\ Len(samples) < MaxRecorded
    /\ tracker' = [tracker EXCEPT !.sample_count_ = @ + 1]
    /\ samples' = Append(samples, latency_ns)
    /\ recorders' = [recorders EXCEPT ![t].pc = "sum", ![t].latency_ns = latency_ns]
    /\ UNCHANGED <<out, notTrackVars>>

\* sum_.fetch_add(latency_ns)
RecordSum(t) ==
    /\ recorders[t].pc = "sum"
    /\ tracker' = [tracker EXCEPT !.sum_ = @ + recorders[t].latency_ns]
    /\ recorders' = [recorders EXCEPT ![t].pc = "min_load"]
    /\ UNCHANGED <<samples, out, notTrackVars>>

\* current_min = min_.load(), current_max = max_.load()
RecordLoad(t) ==
    /\ recorders[t].pc \in {"min_load", "max_load"}
    /\ recorders' = [recorders EXCEPT
          ![t].current = IF recorders[t].pc = "min_load" THEN tracker.min_ ELSE tracker.max_,
          ![t].pc = IF recorders[t].pc = "min_load" THEN "min_cas" ELSE "max_cas"]
    /\ UNCHANGED <<tracker, samples, out, notTrackVars>>

\* one test of the loop on min_: the comparison and, if it holds, the
\* compare-exchange
RecordMin(t) ==
    /\ recorders[t].pc = "min_cas"
    /\ LET r == recorders[t]
           x == compare_exchange(tracker.min_, r.current, r.latency_ns)
       IN  IF r.latency_ns < r.current
           THEN /\ tracker' = [tracker EXCEPT !.min_ = x.cell]
                /\ recorders' = [recorders EXCEPT
                                   ![t].current = x.expected,
                                   ![t].pc = IF x.ok THEN "max_load" ELSE "min_cas"]
           ELSE /\ recorders' = [recorders EXCEPT ![t].pc = "max_load"]
                /\ UNCHANGED tracker
    /\ UNCHANGED <<samples, out, notTrackVars>>

\* one test of the loop on max_
RecordMax(t) ==
    /\ recorders[t].pc = "max_cas"
    /\ LET r == recorders[t]
           x == compare_exchange(tracker.max_, r.current, r.latency_ns)
       IN  IF r.latency_ns > r.current
           THEN /\ tracker' = [tracker EXCEPT !.max_ = x.cell]
                /\ recorders' = [recorders EXCEPT
                                   ![t].current = x.expected,
                                   ![t].pc = IF x.ok THEN "histogram" ELSE "max_cas"]
           ELSE /\ recorders' = [recorders EXCEPT ![t].pc = "histogram"]
                /\ UNCHANGED tracker
    /\ UNCHANGED <<samples, out, notTrackVars>>

\* histogram_[bucket].fetch_add(1) or overflow_count_.fetch_add(1)
RecordBucket(t) ==
    /\ recorders[t].pc = "histogram"
    /\ tracker' = Counted(tracker, recorders[t].latency_ns)
    /\ recorders' = [recorders EXCEPT ![t].pc = "index"]
    /\ UNCHANGED <<samples, out, notTrackVars>>

\* idx = write_index_.fetch_add(1)
RecordIndex(t) ==
    /\ recorders[t].pc = "index"
    /\ tracker' = [tracker EXCEPT !.write_index_ = @ + 1]
    /\ recorders' = [recorders EXCEPT ![t].pc = "ring", ![t].idx = tracker.write_index_]
    /\ UNCHANGED <<samples, out, notTrackVars>>

\* ring_buffer_[idx % RING_BUFFER_SIZE].store(latency_ns); record returns
RecordRing(t) ==
    /\ recorders[t].pc = "ring"
    /\ tracker' = [tracker EXCEPT !.ring_buffer_ =
                      Store(@, recorders[t].idx % RING_BUFFER_SIZE, recorders[t].latency_ns)]
    /\ recorders' = [recorders EXCEPT ![t] = [RecorderIdle EXCEPT !.calls = recorders[t].calls + 1]]
    /\ UNCHANGED <<samples, out, notTrackVars>>

RecordNext ==
    \E t \in Recorders :
        \/ \E latency_ns \in Latencies : RecordCount(t, latency_ns)
        \/ RecordSum(t)
        \/ RecordLoad(t)
        \/ RecordMin(t)
        \/ RecordMax(t)
        \/ RecordBucket(t)
        \/ RecordIndex(t)
        \/ RecordRing(t)

SpecRecord == TrackerInit /\ [][RecordNext]_vars

\* C26: when every call of record made by the threads has returned,
\* sample_count_ is the number of calls, the bucket counts and
\* overflow_count_ sum to it, and min_ and max_ are the smallest and the
\* largest sample recorded.
NoSampleLost ==
    (Quiet /\ samples # <<>>) =>
        /\ tracker.sample_count_ = Len(samples)
        /\ SumOver(tracker.histogram_, DOMAIN tracker.histogram_) + tracker.overflow_count_
              = tracker.sample_count_
        /\ tracker.min_ = Smallest(1)
        /\ tracker.max_ = Smallest(Len(samples))
        /\ tracker.sum_ = SumOver(samples, 1..Len(samples))

\* two threads have recorded three samples between them, the smallest and
\* the largest among them, and all calls have returned
ThreeRecordedByTwo ==
    /\ Quiet
    /\ Len(samples) = 3
    /\ \A t \in Recorders : recorders[t].calls >= 1
    /\ tracker.min_ = 10
    /\ tracker.max_ = 2000000


-----------------------------------------------------------------------------
(* MemoryPool: allocate, deallocate, reset; every atomic operation of a     *)
(* call is a step                                                           *)

\* calls each thread makes while two use the pool; calls of the one thread
\* that uses it alone
MaxPoolCalls == 3
MaxAloneCalls == 5

\* a pointer that is not in [aligned_base_, aligned_base_ + block_size_ * num_blocks_)
Outside == NumBlocks + 1

\* the blocks some caller holds
HeldBlocks == UNION {users[t].held : t \in Threads}

\* a call returns
Returned(u, op, arg, result) ==
    [UserIdle EXCEPT !.held = u.held, !.calls = u.calls + 1, !.last = op, !.arg = arg,
                     !.result = result]

\* allocate: node = free_list_.load(), and the test of the loop
AllocLoad(t) ==
    /\ users[t].pc = "idle"
    /\ users' = [users EXCEPT ![t] =
          IF pool.free_list_ = 0 THEN Returned(@, "allocate", 0, 0)
          ELSE [@ EXCEPT !.pc = "a_next", !.node = pool.free_list_]]
    /\ UNCHANGED <<pool, notPoolVars>>

\* next = node->next.load().  A block that a caller holds is the caller's to
\* write: its first word is then whatever the caller left there.
AllocNext(t) ==
    /\ users[t].pc = "a_next"
    /\ \E next \in (IF users[t].node \in HeldBlocks THEN 0..NumBlocks
                    ELSE {pool.next[users[t].node]}) :
          users' = [users EXCEPT ![t].pc = "a_cas", ![t].next = next]
    /\ UNCHANGED <<pool, notPoolVars>>

\* free_list_.compare_exchange_weak(node, next), and the test of the loop
\* after a failure
AllocCas(t) ==
    /\ users[t].pc = "a_cas"
    /\ LET x == compare_exchange(pool.free_list_, users[t].node, users[t].next) IN
       /\ pool' = [pool EXCEPT !.free_list_ = x.cell]
       /\ users' = [users EXCEPT ![t] =
             IF x.ok THEN [@ EXCEPT !.pc = "a_count"]
             ELSE IF x.expected = 0 THEN Returned(@, "allocate", 0, 0)
             ELSE [@ EXCEPT !.pc = "a_next", !.node = x.expected]]
    /\ UNCHANGED notPoolVars

\* allocated_count_.fetch_add(1); return node
AllocCount(t) ==
    /\ users[t].pc = "a_count"
    /\ pool' = [pool EXCEPT !.allocated_count_ = @ + 1]
    /\ users' = [users EXCEPT ![t] =
          Returned([@ EXCEPT !.held = @ \cup {users[t].node}], "allocate", 0, users[t].node)]
    /\ UNCHANGED notPoolVars

\* deallocate without the test of the pointer against the arena
InPool_any(ptr) == TRUE

\* ptr is within the pool
InPool(ptr) == ptr >= 1 /\ ptr < 1 + NumBlocks

\* deallocate(ptr): the tests of ptr, and expected = free_list_.load().  The
\* caller gives up a block it holds, or passes nullptr or a pointer that is
\* not the pool's.
DeallocLoad(t, ptr) ==
    /\ users[t].pc = "idle"
    /\ ptr \in users[t].held \cup {0, Outside}
    /\ users' = [users EXCEPT ![t] =
          IF ptr = 0 \/ ~ InPool(ptr) THEN Returned(@, "deallocate", ptr, 0)
          ELSE [@ EXCEPT !.pc = "d_store", !.node = ptr, !.arg = ptr,
                         !.expected = pool.free_list_, !.held = @ \ {ptr}]]
    /\ UNCHANGED <<pool, notPoolVars>>

\* node->next.store(expected)
DeallocStore(t) ==
    /\ users[t].pc = "d_store"
    /\ pool' = [pool EXCEPT !.next = Store(@, users[t].node, users[t].expected)]
    /\ users' = [users EXCEPT ![t].pc = "d_cas"]
    /\ UNCHANGED notPoolVars

\* free_list_.compare_exchange_weak(expected, node)
DeallocCas(t) ==
    /\ users[t].pc = "d_cas"
    /\ LET x == compare_exchange(pool.free_list_, users[t].expected, users[t].node) IN
       /\ pool' = [pool EXCEPT !.free_list_ = x.cell]
       /\ users' = [users EXCEPT ![t].pc = IF x.ok THEN "d_count" ELSE "d_store",
                                 ![t].expected = x.expected]
    /\ UNCHANGED notPoolVars

\* allocated_count_.fetch_sub(1); return
DeallocCount(t) ==
    /\ users[t].pc = "d_count"
    /\ pool' = [pool EXCEPT !.allocated_count_ = @ - 1]
    /\ users' = [users EXCEPT ![t] = Returned(@, "deallocate", users[t].arg, 0)]
    /\ UNCHANGED notPoolVars

\* MemoryPool::reset, by a caller that holds no block any more
ResetPool(t) ==
    /\ \A u \in Threads : users[u].pc = "idle"
    /\ users[t].calls > 0
    /\ pool' = NewPool
    /\ users' = [users EXCEPT ![t] = [UserIdle EXCEPT !.calls = users[t].calls,
                                                      !.last = "reset"]]
    /\ UNCHANGED notPoolVars

\* the steps of thread t inside a call
PoolStep(t) ==
    \/ AllocNext(t)
    \/ AllocCas(t)
    \/ AllocCount(t)
    \/ DeallocStore(t)
    \/ DeallocCas(t)
    \/ DeallocCount(t)

PoolInit ==
    /\ ParserConstructed
    /\ CacheConstructed
    /\ ManagerConstructed
    /\ RestConstructed

\* two threads use the pool
PoolNext ==
    \E t \in Threads :
        \/ users[t].calls < MaxPoolCalls /\ AllocLoad(t)
        \/ users[t].calls < MaxPoolCalls /\ \E ptr \in 0..Outside : DeallocLoad(t, ptr)
        \/ PoolStep(t)

SpecPool == PoolInit /\ [][PoolNext]_vars

\* one thread uses the pool
AloneNext ==
    \E t \in {"t1"} :
        \/ users[t].calls < MaxAloneCalls /\ AllocLoad(t)
        \/ users[t].calls < MaxAloneCalls /\ \E ptr \in 0..Outside : DeallocLoad(t, ptr)
        \/ PoolStep(t)
        \/ users[t].calls < MaxAloneCalls /\ users[t].held = {} /\ ResetPool(t)

SpecPoolAlone == PoolInit /\ [][AloneNext]_vars

\* the blocks on the free list, from free_list_ along next, as far as
\* NumBlocks + 1 links
RECURSIVE Listed(_, _)
Listed(b, n) ==
    IF b = 0 \/ n = 0 THEN <<>> ELSE <<b>> \o Listed(pool.next[b], n - 1)

FreeList == Listed(pool.free_list_, NumBlocks + 1)

\* C27: under every interleaving of allocate and deallocate by two threads,
\* no block is held by two callers at once (allocate never returns a block
\* that is allocated), and the free list holds only blocks that no caller
\* holds, each at most once.
NoBlockSharedOrListed ==
    /\ \A t, u \in Threads : t # u => users[t].held \cap users[u].held = {}
    /\ \A i \in 1..Len(FreeList) : FreeList[i] \notin HeldBlocks
    /\ \A i, j \in 1..Len(FreeList) : i # j => FreeList[i] # FreeList[j]


\* the thread that uses the pool alone
SoleUser == users["t1"]

\* this step is the return of a call of the given kind
Returns(op) ==
    /\ users'["t1"].calls = users["t1"].calls + 1
    /\ users'["t1"].last = op

\* C28: with one thread calling allocate and deallocate (of blocks it holds,
\* of nullptr, of a pointer outside the arena), allocate returns nullptr
\* exactly when all num_blocks blocks are outstanding and otherwise a block
\* that is not outstanding; between calls allocated_count_ is the number of
\* outstanding blocks, never more than the capacity; and deallocate of
\* nullptr or of a pointer outside the arena changes nothing.
PoolCountsOutstanding ==
    /\ [](SoleUser.pc = "idle" =>
             /\ pool.allocated_count_ = Cardinality(SoleUser.held)
             /\ pool.allocated_count_ <= NumBlocks)
    /\ [][/\ Returns("allocate") =>
                /\ users'["t1"].result = 0 <=> SoleUser.held = Blocks
                /\ users'["t1"].result # 0 => users'["t1"].result \in Blocks \ SoleUser.held
          /\ (Returns("deallocate") /\ users'["t1"].arg \in {0, Outside}) =>
                /\ pool' = pool
                /\ users'["t1"].held = SoleUser.held]_vars

\* every block is outstanding, allocate has returned nullptr, and a pointer
\* outside the arena has then been handed to deallocate
ExhaustedThenForeign ==
    /\ SoleUser.pc = "idle"
    /\ SoleUser.held = Blocks
    /\ SoleUser.calls = 5
    /\ SoleUser.last = "deallocate"
    /\ SoleUser.arg = Outside
    /\ pool.free_list_ = 0

-----------------------------------------------------------------------------
(* parse_one on bytes that are no frame                                    *)

\* What is wrong with the bytes at the read cursor: "kind" when the header
\* is there and names no message kind, "checksum" when a whole message of a
\* known kind is there and its checksum does not match, "none" otherwise
\* (too few bytes to tell, or a valid frame).
FaultAtCursor(p) ==
    IF Unread(p) < HEADER_SIZE THEN "none"
    ELSE LET size == get_message_size(ReadLE(p.buffer_, p.read_pos_, 2)) IN
         IF size = 0 THEN "kind"
         ELSE IF Unread(p) < size THEN "none"
         ELSE IF validate_checksum(MsgBytes(p, size), size) THEN "none"
         ELSE "checksum"

\* the fields parse_one must leave alone when it skips a byte
KeptBySkip ==
    {"buffer_", "capacity", "write_pos_", "expected_sequence_", "first_message_",
     "messages_parsed_", "trades_parsed_", "quotes_parsed_", "sequence_gaps_",
     "delivered", "gaps"}

-----------------------------------------------------------------------------
(* append_data at the maximum buffer size: a caller that appends what it   *)
(* receives and parses when it chooses                                     *)

MaxIngested == 7        \* frames the peer writes

\* the peer writes a QUOTE frame once the one before has been received
PeerQuote ==
    /\ ~ crashed
    /\ wire = <<>>
    /\ Len(sent) < MaxIngested
    /\ wire' = EncodeFrame(QUOTE, next_seq, 0, 0)
    /\ sent' = Append(sent, <<QUOTE, next_seq>>)
    /\ next_seq' = Inc32(next_seq)
    /\ UNCHANGED <<parser, crashed, last, notParserVars>>

\* append_data(data, n) with the next n bytes received; out is what it
\* returned
Ingest(n) ==
    /\ ~ crashed
    /\ n \in 1..Len(wire)
    /\ LET a == append_data(parser, SubSeq(wire, 1, n)) IN
       /\ wire' = SubSeq(wire, n + 1, Len(wire))
       /\ parser' = a.p
       /\ \/ a.oob > 0 /\ crashed' = TRUE
          \/ crashed' = FALSE
       /\ last' = Op("append_data", IF crashed' THEN "crash" ELSE "copied",
                     Unread(parser), 0, TRUE, 0, a.oob)
       /\ out' = [op |-> "append_data", arg |-> n, value |-> a.ret]
    /\ UNCHANGED <<sent, next_seq, cacheVars, cmVars, loopVars, runVars, streamVars,
                   applied, trackVars, poolVars, sockVars>>

IngestNext ==
    \/ PeerQuote
    \/ \E n \in {HEADER_SIZE + 1, Len(wire)} : Ingest(n)
    \/ ParseOne
    \/ ParseMessages

SpecIngest == ParserInit /\ [][IngestNext]_vars

\* the unread bytes [read_pos_, write_pos_)
UnreadBytes(p) == SubSeq(p.buffer_, p.read_pos_ + 1, p.write_pos_)

\* the step is an append_data of bytes that do not fit beside the unread
\* ones, with buffer_ at its maximum size
AppendAtCap ==
    /\ out'.op = "append_data"
    /\ wire' # wire
    /\ parser.capacity = MAX_BUFFER_SIZE
    /\ Unread(parser) + (Len(wire) - Len(wire')) > parser.capacity

-----------------------------------------------------------------------------
(* send_to_client and the depth of the kernel's send queue                 *)

MaxSendCalls == 3       \* calls of send_to_client

\* half the slow threshold, below which a slow entry is cleared
SlowLow == SLOW_CONSUMER_THRESHOLD \div 2

\* depths of the send queue TIOCOUTQ can report before a send that goes
\* through
Depths == {0, SlowLow - 1, SlowLow, SLOW_CONSUMER_THRESHOLD}

\* What the kernel answers to one send_to_client of len bytes: the depth
\* before the send, what send() returns, and the depth after it.  A full send
\* adds len bytes to the queue; by the time it returns the peer has
\* acknowledged none of the queue, or all of it.
SendAnswers(len) ==
    {[pending |-> a.pending, outcome |-> a.outcome,
      after |-> IF a.outcome = "full" THEN a.pending + len ELSE a.pending] : a \in Answers}
    \cup
    {[pending |-> d, outcome |-> "full", after |-> left * (d + len)] :
        d \in Depths, left \in {0, 1}}

\* one call send_to_client(fd, data, len), as broadcast and send_heartbeat
\* make it; out is the kernel's part in it
SendToClient(fd, len, a) ==
    /\ ~ destroyed
    /\ send_calls < MaxSendCalls
    /\ fd \in DOMAIN clients_
    /\ LET r == send_to_client(clients_, fd, len, a, SLOW_CONSUMER_THRESHOLD) IN
       /\ clients_' = r.clients_
       /\ evt' = Event("send", fd, TRUE, 0, {fd},
                       [NoSends EXCEPT ![fd] = IF a.pending > SLOW_CONSUMER_THRESHOLD
                                               THEN "none" ELSE a.outcome],
                       len, 0, IF r.ok THEN 1 ELSE 0)
    /\ send_calls' = send_calls + 1
    /\ out' = [op |-> "send_to_client", arg |-> fd, value |-> a]
    /\ UNCHANGED <<totals, open_fds, close_calls, destroyed, accepted>>
    /\ UNCHANGED <<parserVars, cacheVars, loopVars, runVars, streamVars, applied,
                   trackVars, poolVars, sockVars>>

SendNext ==
    \/ \E fd \in FDs : HandleNewConnection(fd)
    \/ \E fd \in FDs : \E a \in SendAnswers(HEARTBEAT_MSG_SIZE) :
          SendToClient(fd, HEARTBEAT_MSG_SIZE, a)

SpecSend == CMInit /\ [][SendNext]_vars

\* C33: send_to_client clears is_slow only when the send handed over the
\* whole payload and the depth of the kernel's send queue after that send is
\* below SlowLow.
ClearedBelowSlowLowAfterSend ==
    [][ \A fd \in FDs :
          (SameClient(fd) /\ clients_[fd].is_slow /\ ~ clients_'[fd].is_slow) =>
            /\ out'.op = "send_to_client"
            /\ out'.arg = fd
            /\ out'.value.outcome = "full"
            /\ out'.value.after < SlowLow
      ]_vars


\* C34: slow_consumer_count of a connection counts the changes of its is_slow
\* from false to true: it grows by one in a step that turns is_slow true and
\* stays as it is in every other step, also when an entry that is slow is
\* marked again.
SlowCountIsTransitions ==
    [][ \A fd \in FDs : SameClient(fd) =>
          clients_'[fd].slow_consumer_count =
             clients_[fd].slow_consumer_count
               + (IF ~ clients_[fd].is_slow /\ clients_'[fd].is_slow THEN 1 ELSE 0)
      ]_vars

-----------------------------------------------------------------------------
(* MarketDataSocket's descriptor: connect, do_connect, reconnect,          *)
(* disconnect and FeedHandler::stop, statement by statement, with the      *)
(* signal handler of the consumer's main() calling stop() at any point     *)
(* while the loop of run() is running                                      *)

MaxSignals == 1         \* SIGINT / SIGTERM delivered

\* ::close(fd): EBADF and nothing else for -1
CloseFd(m, fd) ==
    IF fd = 0 THEN m
    ELSE [m EXCEPT !.closes[fd] = @ + 1,
                   !.open = @ \ {fd},
                   !.registered = @ \ {fd}]

\* MarketDataSocket::disconnect, whole
Disconnected(m) ==
    IF m.fd_ # 0
    THEN [CloseFd([m EXCEPT !.connected_ = FALSE, !.registered = @ \ {m.fd_}], m.fd_)
             EXCEPT !.fd_ = 0]
    ELSE [m EXCEPT !.connected_ = FALSE]

\* do_connect has returned ok to its caller
Back(m, ok) ==
    [m EXCEPT !.ok = ok,
              !.at = IF m.caller = "connect" THEN "start_ret" ELSE "reconnect_ret"]

\* run() calls start(), start() calls connect(), which enters do_connect
ConnectCall ==
    /\ mds.at = "main"
    /\ mds' = [mds EXCEPT !.reconnect_count_ = 0, !.caller = "connect", !.at = "dc_test"]
    /\ UNCHANGED notSockVars

\* do_connect: if (fd_ >= 0) ::close(fd_)
CloseOld ==
    /\ mds.at = "dc_test"
    /\ mds' = IF mds.fd_ # 0 THEN [CloseFd(mds, mds.fd_) EXCEPT !.at = "dc_clear"]
              ELSE [mds EXCEPT !.at = "dc_socket"]
    /\ UNCHANGED notSockVars

\* do_connect: fd_ = -1 after that close
ClearOld ==
    /\ mds.at = "dc_clear"
    /\ mds' = [mds EXCEPT !.fd_ = 0, !.at = "dc_socket"]
    /\ UNCHANGED notSockVars

\* do_connect: connected_.store(false), getaddrinfo, fd_ = socket(...);
\* made is false when resolving or socket() fails
CreateSocket(made_ok) ==
    /\ mds.at = "dc_socket"
    /\ mds' = IF made_ok /\ mds.made < MaxSockets
              THEN [mds EXCEPT !.connected_ = FALSE,
                               !.made = @ + 1,
                               !.fd_ = mds.made + 1,
                               !.open = @ \cup {mds.made + 1},
                               !.at = "dc_connect"]
              ELSE Back([mds EXCEPT !.connected_ = FALSE], FALSE)
    /\ UNCHANGED notSockVars

\* do_connect: ::connect, poll, getsockopt, configure_socket and
\* register_socket; each fails on a descriptor that is -1 by now
Establish(ok) ==
    /\ mds.at = "dc_connect"
    /\ mds' = IF ok /\ mds.fd_ # 0
              THEN [mds EXCEPT !.registered = @ \cup {mds.fd_}, !.at = "dc_done"]
              ELSE [mds EXCEPT !.at = "dc_fail"]
    /\ UNCHANGED notSockVars

\* do_connect: ::close(fd_) on a failure
CloseFailed ==
    /\ mds.at = "dc_fail"
    /\ mds' = [CloseFd(mds, mds.fd_) EXCEPT !.at = "dc_fail_clear"]
    /\ UNCHANGED notSockVars

\* do_connect: fd_ = -1; return false
ClearFailed ==
    /\ mds.at = "dc_fail_clear"
    /\ mds' = Back([mds EXCEPT !.fd_ = 0], FALSE)
    /\ UNCHANGED notSockVars

\* do_connect: connected_.store(true); return true
MarkConnected ==
    /\ mds.at = "dc_done"
    /\ mds' = Back([mds EXCEPT !.connected_ = TRUE], TRUE)
    /\ UNCHANGED notSockVars

\* start() after connect(): it fails with connect or with send_subscription
\* (sub: no symbols configured "none", send whole "sent", or not), else
\* running_.store(true) and run() enters its loop
StartReturns(sub) ==
    /\ mds.at = "start_ret"
    /\ mds' = IF /\ mds.ok
                 /\ \/ sub = "none"
                    \/ sub = "sent" /\ mds.connected_ /\ mds.fd_ # 0
              THEN [mds EXCEPT !.running_ = TRUE, !.at = "loop"]
              ELSE [mds EXCEPT !.at = "returned"]
    /\ UNCHANGED notSockVars

\* one pass of the loop of run(): the loop test, wait_for_data and
\* process_data.  w: nothing or data and the loop goes round ("on"), the
\* connection is found closed or broken ("lost": connected_.store(false)),
\* or epoll_wait fails ("fail")
WaitForData(w) ==
    /\ mds.at = "loop"
    /\ mds' = IF ~ mds.running_ THEN [mds EXCEPT !.at = "returned"]
              ELSE IF ~ mds.connected_ \/ mds.fd_ = 0 THEN [mds EXCEPT !.at = "recover"]
              ELSE IF w = "on" THEN mds
              ELSE IF w = "lost" THEN [mds EXCEPT !.connected_ = FALSE, !.at = "recover"]
              ELSE [mds EXCEPT !.at = "recover"]
    /\ UNCHANGED notSockVars

\* run() on wait_for_data < 0: reconnect() up to its call of do_connect, or
\* stop() when reconnecting is off or the attempts are used up
ReconnectCall ==
    /\ mds.at = "recover"
    /\ mds' = IF ~ mds.auto_reconnect THEN [mds EXCEPT !.at = "stop"]
              ELSE IF mds.reconnect_count_ >= MAX_RETRY_COUNT THEN [mds EXCEPT !.at = "stop"]
              ELSE [mds EXCEPT !.reconnect_count_ = @ + 1, !.caller = "reconnect",
                               !.at = "dc_test"]
    /\ UNCHANGED notSockVars

\* run() after reconnect(): on, or stop() when the attempts are used up
ReconnectReturns ==
    /\ mds.at = "reconnect_ret"
    /\ mds' = IF mds.ok THEN [mds EXCEPT !.at = "loop"]
              ELSE IF mds.reconnect_count_ >= MAX_RETRY_COUNT THEN [mds EXCEPT !.at = "stop"]
              ELSE [mds EXCEPT !.at = "loop"]
    /\ UNCHANGED notSockVars

\* stop() on the handler's thread, from run() or from ~FeedHandler:
\* running_.store(false), and disconnect() up to its ::close(fd_)
StopClose ==
    /\ mds.at \in {"stop", "returned"}
    /\ LET m == [mds EXCEPT !.running_ = FALSE, !.connected_ = FALSE,
                            !.caller = IF mds.at = "stop" THEN "run" ELSE "dtor"]
       IN  mds' = IF m.fd_ # 0
                  THEN [CloseFd([m EXCEPT !.registered = @ \ {m.fd_}], m.fd_)
                           EXCEPT !.at = "stop_clear"]
                  ELSE [m EXCEPT !.at = IF m.caller = "run" THEN "returned" ELSE "done"]
    /\ UNCHANGED notSockVars

\* disconnect(): fd_ = -1; run() breaks out of its loop and returns, or the
\* destructors finish (~MarketDataSocket finds fd_ = -1)
StopClear ==
    /\ mds.at = "stop_clear"
    /\ mds' = [mds EXCEPT !.fd_ = 0,
                          !.at = IF mds.caller = "run" THEN "returned" ELSE "done"]
    /\ UNCHANGED notSockVars

\* SIGINT or SIGTERM while the loop of run() is running: signal_handler
\* calls stop() between two statements of the handler's thread
SignalStop ==
    /\ mds.running_
    /\ mds.at \notin {"main", "returned", "done"}
    /\ mds.signals < MaxSignals
    /\ mds' = [Disconnected([mds EXCEPT !.running_ = FALSE]) EXCEPT !.signals = @ + 1]
    /\ UNCHANGED notSockVars

SocketInit ==
    /\ ParserConstructed
    /\ CacheConstructed
    /\ ManagerConstructed
    /\ LoopConstructed /\ RunConstructed /\ StreamConstructed
    /\ QuietConstructed /\ TrackerConstructed /\ PoolConstructed
    /\ \E auto \in BOOLEAN : mds = [NewHandler EXCEPT !.auto_reconnect = auto]

\* the handler's thread
SocketThread ==
    \/ ConnectCall
    \/ CloseOld
    \/ ClearOld
    \/ \E made_ok \in BOOLEAN : CreateSocket(made_ok)
    \/ \E ok \in BOOLEAN : Establish(ok)
    \/ CloseFailed
    \/ ClearFailed
    \/ MarkConnected
    \/ \E sub \in {"none", "sent", "failed"} : StartReturns(sub)
    \/ \E w \in {"on", "lost", "fail"} : WaitForData(w)
    \/ ReconnectCall
    \/ ReconnectReturns
    \/ StopClose
    \/ StopClear

SocketNext == SocketThread \/ SignalStop

SpecSocket == SocketInit /\ [][SocketNext]_vars

\* the thread is between two operations of the socket
BetweenCalls == mds.at \in {"main", "start_ret", "loop", "recover", "reconnect_ret",
                            "returned", "done"}

\* C35: every socket created is closed exactly once (no close is made on a
\* socket that is closed, and none is open once the handler is destroyed),
\* at most one is open at a time, and connected_ = true implies that fd_ is
\* an open descriptor registered with epoll.
DescriptorClosedOnce ==
    /\ \A i \in 1..MaxSockets : mds.closes[i] <= 1
    /\ mds.at = "done" => \A i \in 1..mds.made : mds.closes[i] = 1
    /\ Cardinality(mds.open) <= 1
    /\ (BetweenCalls /\ mds.connected_) =>
          /\ mds.fd_ # 0
          /\ mds.fd_ \in mds.open
          /\ mds.fd_ \in mds.registered


-----------------------------------------------------------------------------
(* What send_to_client leaves in the kernel for one subscriber when sends   *)
(* are partial and frames go on being generated.  Nothing reads the         *)
(* connection here, so wire is all the bytes ::send has taken for the       *)
(* consumer's descriptor.                                                   *)

\* frames generated in these streams
MaxHanded == 2

HandedNext ==
    \/ \E fd \in FDs : HandleNewConnection(fd)
    \/ /\ Len(made) < MaxHanded
       /\ \E is_trade \in BOOLEAN, symbol_id \in Symbols, order \in Orders(DOMAIN clients_) :
          \E answers \in StreamAnswers(Asked(QUOTE_MSG_SIZE, symbol_id, order)) :
              StreamTick(is_trade, symbol_id, order, answers)
    \/ /\ Len(made) < MaxHanded
       /\ \E dt \in 0..Second, order \in Orders(DOMAIN clients_) :
          \E answers \in StreamAnswers(DOMAIN clients_) :
              StreamPass(dt, order, answers)

SpecHanded == StreamInit /\ [][HandedNext]_vars

\* the frames generated so far, whatever their symbol
FramesMade ==
    {EncodeFrame(made[i].kind, made[i].seq, 0, symbol_id) :
        i \in {j \in 1..Len(made) : ~ made[j].dropped}, symbol_id \in Symbols}

\* w is the beginning of a generated frame, cut short
CutShort(w) == \E f \in FramesMade : Len(w) < Len(f) /\ w = SubSeq(f, 1, Len(w))

\* w is generated frames, whole, one after the other, and after the last of
\* them nothing or the beginning of one more
RECURSIVE FramesThenPiece(_)
FramesThenPiece(w) ==
    \/ w = <<>>
    \/ CutShort(w)
    \/ \E f \in FramesMade :
          /\ Len(f) <= Len(w)
          /\ SubSeq(w, 1, Len(f)) = f
          /\ FramesThenPiece(SubSeq(w, Len(f) + 1, Len(w)))

\* C36: the bytes the publisher has handed to the kernel for a subscriber
\* are complete frames one after the other: whatever broadcasts and
\* heartbeats there were, partial sends included, no frame is left partly
\* written with later frames behind it.
HandedWholeFrames == FramesThenPiece(wire)


\* C37: a tick broadcast never clears is_slow: it passes over every entry
\* whose is_slow is set, calling send_to_client for none of them and leaving
\* their counters as they are, and the only step that turns is_slow of a
\* connection from true to false is the send_to_client that send_heartbeat
\* makes for it.
SlowClearedByHeartbeatOnly ==
    [][ \A fd \in FDs :
          /\ (evt'.op = "broadcast" /\ fd \in DOMAIN clients_ /\ clients_[fd].is_slow) =>
                /\ fd \notin evt'.called
                /\ evt'.sends[fd] = "none"
                /\ clients_'[fd] = clients_[fd]
          /\ (SameClient(fd) /\ clients_[fd].is_slow /\ ~ clients_'[fd].is_slow) =>
                /\ evt'.op = "heartbeat"
                /\ fd \in evt'.called
                /\ evt'.sends[fd] = "full"
      ]_cmVars

\* a connection marked slow before it was sent any tick wholly, cleared by
\* the heartbeat just sent
ClearedByHeartbeat ==
    \E fd \in DOMAIN clients_ :
        /\ clients_[fd].slow_consumer_count > 0
        /\ clients_[fd].messages_sent = 0
        /\ ~ clients_[fd].is_slow
        /\ evt.op = "heartbeat"
        /\ fd \in evt.called
        /\ evt.sends[fd] = "full"


\* C38: reconnect_count_ counts the reconnect attempts made since connect(),
\* the successful ones like the failed ones, and never goes down while run()
\* is in its session; once it has reached MAX_RETRY_COUNT no step makes
\* another connection attempt or connects the socket again, and a loop that
\* then finds the connection lost returns.
UsedUp == fh.at = "loop" /\ sk.reconnect_count_ >= MAX_RETRY_COUNT

CountNeverReset ==
    /\ [](fh.at # "main" => sk.reconnect_count_ = Len(naps))
    /\ [][ /\ sk'.reconnect_count_ >= sk.reconnect_count_
           /\ UsedUp => /\ naps' = naps
                        /\ sk'.reconnect_count_ = sk.reconnect_count_
                        /\ sk'.connected_ => sk.connected_
                        /\ link'.up => link.up
         ]_vars
    /\ (UsedUp /\ (~ sk.connected_ \/ ~ link.up)) ~> fh.at = "returned"

\* five attempts, the last of them and an earlier one successful, and the
\* loop has returned after the connection the fifth attempt made
LossAfterFifthSuccess ==
    /\ Len(naps) = MAX_RETRY_COUNT
    /\ naps[MAX_RETRY_COUNT].ok
    /\ \E i \in 1..(MAX_RETRY_COUNT - 1) : naps[i].ok
    /\ \E i \in 1..(MAX_RETRY_COUNT - 1) : ~ naps[i].ok
    /\ sk.reconnect_count_ = MAX_RETRY_COUNT
    /\ config_.auto_reconnect
    /\ fh.at = "returned"
    /\ ~ sk.connected_


-----------------------------------------------------------------------------
(* The consumer across a reconnect: FeedHandler::run with its parser.  The  *)
(* publisher numbers the frames it generates whether the consumer is        *)
(* connected or not; the bytes of a connection that were not received when  *)
(* its socket is closed are gone.                                           *)

\* frames the publisher generates in these runs
MaxResumed == 3

\* the parser_ member across the branch of run() for wait_for_data < 0:
\* with a reset when the reconnect succeeded
parser_reset_on_reconnect(p, reconnected) == IF reconnected THEN reset(p) ELSE p

\* the parser_ member across the branch of run() for wait_for_data < 0: the
\* branch calls reconnect, send_subscription and stop, and nothing of parser_
parser_across_reconnect(p, reconnected) == p

\* the publisher generates a frame and sends it to the consumer
PeerSends(kind) ==
    /\ fh.at = "loop"
    /\ link.up
    /\ wire = <<>>
    /\ ReadLE(next_seq, 0, 4) < MaxResumed
    /\ wire' = EncodeFrame(kind, next_seq, 0, 0)
    /\ sent' = Append(sent, <<kind, next_seq>>)
    /\ next_seq' = Inc32(next_seq)
    /\ UNCHANGED <<parser, crashed, last, notParserVars>>

\* the publisher generates a frame while the consumer is not attached
PeerGenerates ==
    /\ fh.at = "loop"
    /\ ~ link.up
    /\ ReadLE(next_seq, 0, 4) < MaxResumed
    /\ next_seq' = Inc32(next_seq)
    /\ UNCHANGED <<parser, wire, sent, crashed, last, notParserVars>>

\* a pass of run() whose wait_for_data reports data: process_data receives
\* the next n bytes, appends them and parses
ResumeReceive(n) ==
    /\ fh.at = "loop" /\ fh.running_
    /\ sk.connected_ /\ link.up
    /\ ~ crashed
    /\ n \in 1..Len(wire)
    /\ LET a == append_data(parser, SubSeq(wire, 1, n))
           m == parse_messages(a.p)
       IN  /\ a.oob = 0
           /\ wire' = SubSeq(wire, n + 1, Len(wire))
           /\ parser' = m.p
           /\ last' = Op("feed", "parsed", Unread(a.p), m.calls, m.done, m.count, a.oob)
    /\ link' = [link EXCEPT !.chunks = @ + 1]
    /\ UNCHANGED <<sent, next_seq, crashed, config_, sk, fh, naps, cacheVars, cmVars,
                   loopVars, streamVars, applied, otherVars>>

\* the connection breaks, with what it still carried
ResumeBreak ==
    /\ fh.at = "loop"
    /\ link.up
    /\ link' = [link EXCEPT !.up = FALSE]
    /\ wire' = <<>>
    /\ UNCHANGED <<parser, sent, next_seq, crashed, last, config_, sk, fh, naps,
                   cacheVars, cmVars, loopVars, streamVars, applied, otherVars>>

\* a pass of run() whose wait_for_data returns -1: the branch of lines
\* 92-119
ResumeLost(ok, sendok) ==
    /\ fh.at = "loop" /\ fh.running_
    /\ ~ sk.connected_ \/ ~ link.up
    /\ LET rec == Recover([sk EXCEPT !.connected_ = FALSE], ok, sendok)
       IN  /\ sk' = IF rec.stop THEN disconnect(rec.sk) ELSE rec.sk
           /\ link' = IF rec.stop THEN NoLink ELSE rec.link
           /\ naps' = IF rec.slept = <<>> THEN naps
                      ELSE Append(naps, [delay |-> rec.slept[1], ok |-> rec.ok])
           /\ fh' = [fh EXCEPT !.running_ = IF rec.stop THEN FALSE ELSE @,
                               !.at = IF rec.stop THEN "returned" ELSE @]
           /\ parser' = parser_across_reconnect(parser, rec.ok)
    /\ last' = Op("reconnect", "none", Unread(parser), 0, TRUE, 0, 0)
    /\ UNCHANGED <<wire, sent, next_seq, crashed, config_, cacheVars, cmVars, loopVars,
                   streamVars, applied, otherVars>>

ResumeNext ==
    \/ \E ok \in BOOLEAN, sendok \in BOOLEAN : RunBegin(ok, sendok)
    \/ \E kind \in {QUOTE, HEARTBEAT} : PeerSends(kind)
    \/ PeerGenerates
    \/ \E n \in {HEADER_SIZE + 1, Len(wire)} : ResumeReceive(n)
    \/ ResumeBreak
    \/ \E ok \in BOOLEAN, sendok \in BOOLEAN : ResumeLost(ok, sendok)

SpecResume == RunInit /\ [][ResumeNext]_vars

\* the step is a pass of run() that reconnected
Reconnected == last'.op = "reconnect" /\ Len(naps') = Len(naps) + 1 /\ naps'[Len(naps')].ok

\* the step receives, first on a connection made by reconnect, a whole frame
FirstAfterReconnect ==
    /\ last'.op = "feed"
    /\ link.via = "reconnect" /\ link.chunks = 0
    /\ wire' = <<>>
    /\ Len(wire) = get_message_size(sent[Len(sent)][1])

\* C39: a reconnect of the consumer leaves its parser as it is: the unread
\* bytes, expected_sequence_, first_message_ and every counter are after the
\* reconnect what they were before.  So the first frame of the new
\* connection is checked against the sequence number expected on the old
\* one when nothing was left over, and is parsed behind the bytes left over
\* when there were any.
ReconnectKeepsParser ==
    [][ /\ Reconnected => parser' = parser
        /\ (FirstAfterReconnect /\ Unread(parser) = 0) =>
              LET f == sent[Len(sent)] IN
              /\ parser'.delivered = Append(parser.delivered, f)
              /\ parser'.sequence_gaps_ = parser.sequence_gaps_
                    + (IF ~ parser.first_message_ /\ f[2] # parser.expected_sequence_
                       THEN 1 ELSE 0)
              /\ parser'.expected_sequence_ = Inc32(f[2])
        /\ (FirstAfterReconnect /\ Unread(parser) > 0) =>
              \/ parser'.delivered = parser.delivered
              \/ parser'.checksum_errors_ + parser'.malformed_messages_
                     > parser.checksum_errors_ + parser.malformed_messages_
      ]_vars

\* after a reconnect that found part of a frame left over, the first frame
\* of the new connection has come in behind it and a gap has been counted
\* against the old connection's numbering
ResumedBehindLeftover ==
    /\ link.via = "reconnect"
    /\ link.chunks = 1
    /\ last.op = "feed"
    /\ parser.checksum_errors_ > 0
    /\ parser.sequence_gaps_ > 0
    /\ Len(parser.delivered) >= 2


-----------------------------------------------------------------------------
(* One subscriber that changes its subscription and is passed over while    *)
(* slow, and its consumer's parser: which generated frames reach it, and    *)
(* the gaps its parser counts.                                              *)

\* frames generated in these streams
MaxNumbered == 5

\* the consumer's subscription request arrives
ConsumerSubscribes ==
    \E symbol_ids \in Requests :
        /\ ConsumerFd \in DOMAIN clients_
        /\ clients_[ConsumerFd].subscribe_all
        /\ HandleClientEvent(ConsumerFd, TRUE, FALSE, "subscribe", symbol_ids)

\* The kernel's answers in these streams: a send takes the whole frame or,
\* the socket's buffer being full, nothing of it.  (What a send that takes
\* part of a frame leaves on the connection is followed in SpecHanded.)
NumberedAnswers(S) ==
    {answers \in StreamAnswers(S) : \A fd \in S : answers[fd].outcome # "partial"}

\* a frame is generated when the consumer has read what was sent before
NumberedOn == Len(made) < MaxNumbered /\ wire = <<>>

NumberedNext ==
    \/ HandleNewConnection(ConsumerFd)
    \/ ConsumerSubscribes
    \/ /\ NumberedOn
       /\ \E is_trade \in BOOLEAN, symbol_id \in Symbols, order \in Orders(DOMAIN clients_) :
          \E answers \in NumberedAnswers(Asked(QUOTE_MSG_SIZE, symbol_id, order)) :
              StreamTick(is_trade, symbol_id, order, answers)
    \/ /\ NumberedOn
       /\ \E order \in Orders(DOMAIN clients_) :
          \E answers \in NumberedAnswers(DOMAIN clients_) :
              StreamPass(Second, order, answers)
    \/ StreamReceive

SpecNumbered == StreamInit /\ [][NumberedNext]_vars

\* the places in the log of the frames sent wholly to the consumer
SentWhole == {i \in 1..Len(made) : ConsumerFd \in made[i].to}

\* the place in the log of the j-th frame the parser delivered
PlaceOf(j) == Value32(parser.delivered[j][2])

\* the deliveries before which generated frames are missing
AfterMissing ==
    {j \in 2..Len(parser.delivered) : PlaceOf(j) > PlaceOf(j - 1) + 1}

=============================================================================
